---- MODULE Spec2Model ----
(***************************************************************************)
(* Scene entity model (Object and its specializations) and the scene       *)
(* object registry (ObjectManager) of opengl_env_cpp.                      *)
(*                                                                         *)
(* Objects, shapes and lights live on heaps (sequences); a shared_ptr is   *)
(* an index into its heap and 0 is the null pointer.  Floating-point       *)
(* coordinates, radii and distances are integers.                          *)
(***************************************************************************)
EXTENDS Integers, Sequences, FiniteSets, TLC

VARIABLES
    s_nextID,      \* Object::s_nextID
    objects,       \* heap of constructed Object instances
    shapes,        \* heap of ColoredShape instances (transform part)
    lights,        \* heap of Light instances (position part)
    m_objects,     \* ObjectManager::m_objects, a vector of object pointers
    m_objectTags,  \* ObjectManager::m_objectTags, identity -> vector of tags
    window,        \* the Window's curve settings: m_nurbsDegree, m_curveDisplay, m_currentDegree
    last           \* the last call made: its name, arguments and result

vars == <<s_nextID, objects, shapes, lights, m_objects, m_objectTags, window, last>>

----------------------------------------------------------------------------
(* Bounds of the model *)

MaxObjects == 2     \* objects constructed in the registry specifications
MaxList == 2        \* length of m_objects
MaxPosed == 1       \* objects constructed in the transform specification
MaxShapes == 1      \* shapes constructed
MaxAnim == 2        \* largest accumulated animation time
MaxPoints == 4      \* control points given to a curve
MaxDegree == 3      \* largest degree asked of a NURBS curve

NULL == 0

\* Window: the curve settings a new window starts with
DefaultNurbsDegree == 9999999
WindowNew == [m_nurbsDegree |-> DefaultNurbsDegree, m_curveDisplay |-> "BEZIER", m_currentDegree |-> 0]

Tags == {"bezier_control", "nurbs_bezier_piece"}
UserNames == {"bezier_curve"}

Vec(x, y, z) == <<x, y, z>>
VZero == Vec(0, 0, 0)
VOne == Vec(1, 1, 1)
VAdd(a, b) == Vec(a[1] + b[1], a[2] + b[2], a[3] + b[3])
VSub(a, b) == Vec(a[1] - b[1], a[2] - b[2], a[3] - b[3])
Dot(a, b) == a[1] * b[1] + a[2] * b[2] + a[3] * b[3]

\* std::to_string on the identities the model reaches
Digits == <<"0", "1", "2", "3", "4", "5", "6", "7", "8", "9">>
to_string(n) == IF n < 10 THEN Digits[n + 1] ELSE Digits[(n \div 10) + 1] \o Digits[(n % 10) + 1]

Range(s) == {s[i] : i \in 1..Len(s)}
Ptrs == 1..Len(objects)

----------------------------------------------------------------------------
(* Object: construction *)

NextID_Stuck(id) == id

\* s_nextID++ in every constructor's initializer list
NextID(id) == id + 1

TypePrefix(kind) == kind \o "_"

\* Object::Object(pos, shape) and the derived constructors, which rename it
NewObject(kind, pos, shape, light) ==
    [ m_id |-> s_nextID,
      m_name |-> TypePrefix(kind) \o to_string(s_nextID),
      kind |-> kind,
      m_pos |-> pos,
      m_rotation |-> VZero,
      m_scale |-> VOne,
      m_shape |-> shape,
      m_light |-> light,
      m_boundingSphereRadius |-> 1,
      m_active |-> TRUE,
      m_visible |-> TRUE,
      m_animationTime |-> 0 ]

Construct(limit, kind, pos, shape, light) ==
    /\ Len(objects) < limit
    /\ objects' = Append(objects, NewObject(kind, pos, shape, light))
    /\ s_nextID' = NextID(s_nextID)
    /\ last' = [op |-> "Construct", arg |-> kind, ret |-> Len(objects) + 1]
    /\ UNCHANGED <<shapes, m_objects, m_objectTags, window>>

\* Object::Object()
ConstructDefault(limit) ==
    /\ Construct(limit, "Object", VZero, NULL, NULL)
    /\ UNCHANGED <<lights, window>>

\* Object::Object(const glm::vec3& pos)
ConstructAt(limit, pos) ==
    /\ Construct(limit, "Object", pos, NULL, NULL)
    /\ UNCHANGED <<lights, window>>

\* Object::Object(pos, shape), GeometryObject(pos, shape), Bezier3DObject(pos, shape)
ConstructWithShape(limit, kind, pos, shape) ==
    /\ kind \in {"Object", "GeometryObject", "Bezier3DObject"}
    /\ shape \in 0..Len(shapes)
    /\ Construct(limit, kind, pos, shape, NULL)
    /\ UNCHANGED <<lights, window>>

\* LightObject::LightObject(pos, light): a given light is moved to pos
ConstructLight(limit, pos, light) ==
    /\ light \in 0..Len(lights)
    /\ Construct(limit, "LightObject", pos, NULL, light)
    /\ lights' = IF light # NULL THEN [lights EXCEPT ![light] = pos] ELSE lights

\* Shape::Shape(): a fresh shape with the identity transform
NewShape ==
    /\ Len(shapes) < MaxShapes
    /\ shapes' = Append(shapes, [m_position |-> VZero, m_rotation |-> VZero, m_scale |-> VOne])
    /\ last' = [op |-> "NewShape", arg |-> NULL, ret |-> Len(shapes) + 1]
    /\ UNCHANGED <<s_nextID, objects, lights, m_objects, m_objectTags, window>>

\* Light::Light(type, position)
NewLight(pos) ==
    /\ Len(lights) < 1
    /\ lights' = Append(lights, pos)
    /\ last' = [op |-> "NewLight", arg |-> pos, ret |-> Len(lights) + 1]
    /\ UNCHANGED <<s_nextID, objects, shapes, m_objects, m_objectTags, window>>

----------------------------------------------------------------------------
(* Object: transform, shape and flags *)

SyncResult_NoScale(shapeHeap, obj) ==
    IF obj.m_shape # NULL
    THEN [shapeHeap EXCEPT ![obj.m_shape] =
              [m_position |-> obj.m_pos, m_rotation |-> obj.m_rotation, m_scale |-> @.m_scale]]
    ELSE shapeHeap

\* Object::SyncShapeTransform on an object record: the shape heap afterwards
SyncResult(shapeHeap, obj) ==
    IF obj.m_shape # NULL
    THEN [shapeHeap EXCEPT ![obj.m_shape] =
              [m_position |-> obj.m_pos, m_rotation |-> obj.m_rotation, m_scale |-> obj.m_scale]]
    ELSE shapeHeap

SetPosition(p, pos) ==
    /\ objects' = [objects EXCEPT ![p].m_pos = pos]
    /\ shapes' = SyncResult(shapes, objects'[p])
    /\ last' = [op |-> "SetPosition", arg |-> p, ret |-> NULL]
    /\ UNCHANGED <<s_nextID, lights, m_objects, m_objectTags, window>>

SetRotation(p, rotation) ==
    /\ objects' = [objects EXCEPT ![p].m_rotation = rotation]
    /\ shapes' = SyncResult(shapes, objects'[p])
    /\ last' = [op |-> "SetRotation", arg |-> p, ret |-> NULL]
    /\ UNCHANGED <<s_nextID, lights, m_objects, m_objectTags, window>>

SetScale(p, scale) ==
    /\ objects' = [objects EXCEPT ![p].m_scale = scale]
    /\ shapes' = SyncResult(shapes, objects'[p])
    /\ last' = [op |-> "SetScale", arg |-> p, ret |-> NULL]
    /\ UNCHANGED <<s_nextID, lights, m_objects, m_objectTags, window>>

\* Object::Move: SetPosition(m_pos + offset)
Move(p, offset) ==
    /\ objects' = [objects EXCEPT ![p].m_pos = VAdd(@, offset)]
    /\ shapes' = SyncResult(shapes, objects'[p])
    /\ last' = [op |-> "Move", arg |-> p, ret |-> NULL]
    /\ UNCHANGED <<s_nextID, lights, m_objects, m_objectTags, window>>

\* Object::SetShape: the pointer is replaced, nothing is synchronized
SetShape(p, shape) ==
    /\ objects' = [objects EXCEPT ![p].m_shape = shape]
    /\ last' = [op |-> "SetShape", arg |-> p, ret |-> NULL]
    /\ UNCHANGED <<s_nextID, shapes, lights, m_objects, m_objectTags, window>>

SetActive(p, active) ==
    /\ objects' = [objects EXCEPT ![p].m_active = active]
    /\ last' = [op |-> "SetActive", arg |-> p, ret |-> NULL]
    /\ UNCHANGED <<s_nextID, shapes, lights, m_objects, m_objectTags, window>>

SetVisible(p, visible) ==
    /\ objects' = [objects EXCEPT ![p].m_visible = visible]
    /\ last' = [op |-> "SetVisible", arg |-> p, ret |-> NULL]
    /\ UNCHANGED <<s_nextID, shapes, lights, m_objects, m_objectTags, window>>

SetBoundingSphereRadius(p, radius) ==
    /\ objects' = [objects EXCEPT ![p].m_boundingSphereRadius = radius]
    /\ last' = [op |-> "SetBoundingSphereRadius", arg |-> p, ret |-> NULL]
    /\ UNCHANGED <<s_nextID, shapes, lights, m_objects, m_objectTags, window>>

----------------------------------------------------------------------------
(* ObjectManager: the entity list and the tag index *)

GetID(p) == objects[p].m_id
GetName(p) == objects[p].m_name
IsActive(p) == objects[p].m_active
IsVisible(p) == objects[p].m_visible

\* std::find_if / std::find over a vector: the first index whose element is in
\* Matching (the elements the predicate accepts), or 0 for end()
FindIf(list, Matching) ==
    IF \E i \in 1..Len(list) : list[i] \in Matching
    THEN CHOOSE i \in 1..Len(list) :
             list[i] \in Matching /\ \A j \in 1..(i - 1) : list[j] \notin Matching
    ELSE 0

\* the predicates of the lookups: the objects with a given identity or name
WithID(id) == {p \in Ptrs : GetID(p) = id}
WithName(name) == {p \in Ptrs : GetName(p) = name}

\* vector::erase(it)
Erase(list, i) == [j \in 1..(Len(list) - 1) |-> IF j < i THEN list[j] ELSE list[j + 1]]

\* an empty std::map
EmptyMap == [k \in {} |-> <<>>]

\* map::erase(key)
MapErase(map, key) == [k \in (DOMAIN map) \ {key} |-> map[k]]

\* AddObject: the list after the call
AddResult(list, obj) == IF obj = NULL THEN list ELSE Append(list, obj)

AddObject(obj) ==
    /\ Len(m_objects) < MaxList
    /\ m_objects' = AddResult(m_objects, obj)
    /\ last' = [op |-> "AddObject", arg |-> obj, ret |-> NULL]
    /\ UNCHANGED <<s_nextID, objects, shapes, lights, m_objectTags, window>>

RemoveAt_KeepTags(list, map, it) ==
    IF it # 0
    THEN [list |-> Erase(list, it), map |-> map, ret |-> TRUE]
    ELSE [list |-> list, map |-> map, ret |-> FALSE]

\* the common tail of the two removals: erase the tag entry of the entity at
\* it and the list entry at it, and say whether it was found
RemoveAt(list, map, it) ==
    IF it # 0
    THEN [list |-> Erase(list, it), map |-> MapErase(map, GetID(list[it])), ret |-> TRUE]
    ELSE [list |-> list, map |-> map, ret |-> FALSE]

\* RemoveObjectByID: the list, the tag index and the value returned
RemoveByIDResult(list, map, id) ==
    RemoveAt(list, map, FindIf(list, WithID(id)))

RemoveObjectByID(id) ==
    LET r == RemoveByIDResult(m_objects, m_objectTags, id) IN
    /\ m_objects' = r.list
    /\ m_objectTags' = r.map
    /\ last' = [op |-> "RemoveObjectByID", arg |-> id, ret |-> r.ret]
    /\ UNCHANGED <<s_nextID, objects, shapes, lights, window>>

\* RemoveObjectByName: the list, the tag index and the value returned
RemoveByNameResult(list, map, name) ==
    RemoveAt(list, map, FindIf(list, WithName(name)))

RemoveObjectByName(name) ==
    LET r == RemoveByNameResult(m_objects, m_objectTags, name) IN
    /\ m_objects' = r.list
    /\ m_objectTags' = r.map
    /\ last' = [op |-> "RemoveObjectByName", arg |-> name, ret |-> r.ret]
    /\ UNCHANGED <<s_nextID, objects, shapes, lights, window>>

RemoveAllObjects ==
    /\ m_objects' = <<>>
    /\ m_objectTags' = EmptyMap
    /\ last' = [op |-> "RemoveAllObjects", arg |-> NULL, ret |-> NULL]
    /\ UNCHANGED <<s_nextID, objects, shapes, lights, window>>

\* lookups over a given list: the pointer found, or NULL
LookupByID(list, id) ==
    LET it == FindIf(list, WithID(id)) IN
    IF it # 0 THEN list[it] ELSE NULL

GetObjectByID(id) == LookupByID(m_objects, id)

GetObjectByName(name) ==
    LET it == FindIf(m_objects, WithName(name)) IN
    IF it # 0 THEN m_objects[it] ELSE NULL

----------------------------------------------------------------------------
(* ObjectManager: spatial queries *)

\* sqrtf, on the perfect squares the model's coordinates produce
Sqrt(n) == CHOOSE k \in 0..n : k * k = n

\* glm::length
Length(v) == Sqrt(Dot(v, v))

GetBoundingSphereCentre(o) == o.m_pos
GetBoundingSphereRadius(o) == o.m_boundingSphereRadius

CheckCollision_Strict(obj1, obj2) ==
    Length(VSub(GetBoundingSphereCentre(obj2), GetBoundingSphereCentre(obj1)))
        < GetBoundingSphereRadius(obj1) + GetBoundingSphereRadius(obj2)

\* ObjectManager::CheckCollision on two object records
CheckCollision(obj1, obj2) ==
    LET center1 == GetBoundingSphereCentre(obj1)
        center2 == GetBoundingSphereCentre(obj2)
        radius1 == GetBoundingSphereRadius(obj1)
        radius2 == GetBoundingSphereRadius(obj2)
        distance == Length(VSub(center2, center1))
    IN  distance <= radius1 + radius2

\* one turn of the loop of CheckCollisionsWithObject: whether other is pushed
CollidesWith(obj, other) ==
    /\ objects[other].m_id # obj.m_id
    /\ objects[other].m_active
    /\ CheckCollision(obj, objects[other])

\* ObjectManager::CheckCollisionsWithObject: the vector returned
CheckCollisionsWithObject(obj) ==
    LET Pushed(other) == CollidesWith(obj, other)
    IN  SelectSeq(m_objects, Pushed)

CallCheckCollisionsWithObject(p) ==
    /\ last' = [op |-> "CheckCollisionsWithObject", arg |-> p,
                ret |-> CheckCollisionsWithObject(objects[p])]
    /\ UNCHANGED <<s_nextID, objects, shapes, lights, m_objects, m_objectTags, window>>

\* x > std::numeric_limits<float>::epsilon(), on integers
AboveEpsilon(x) == x > 0

\* glm::intersectRaySphere(rayStarting, rayNormalizedDirection, sphereCenter,
\* sphereRadiusSquared, intersectionDistance): whether it returns true, and
\* the distance it stores
intersectRaySphere(rayStarting, rayNormalizedDirection, sphereCenter, sphereRadiusSquared) ==
    LET diff == VSub(sphereCenter, rayStarting)
        t0 == Dot(diff, rayNormalizedDirection)
        dSquared == Dot(diff, diff) - t0 * t0
    IN  IF dSquared > sphereRadiusSquared
        THEN [hit |-> FALSE, distance |-> 0]
        ELSE LET t1 == Sqrt(sphereRadiusSquared - dSquared)
                 intersectionDistance == IF AboveEpsilon(t0 - t1) THEN t0 - t1 ELSE t0 + t1
             IN  [hit |-> AboveEpsilon(intersectionDistance),
                  distance |-> intersectionDistance]

\* the call RayCast makes for one object: the radius goes where glm takes the
\* squared radius
RayHit(o, rayOrigin, rayDirection) ==
    intersectRaySphere(rayOrigin, rayDirection,
                       GetBoundingSphereCentre(o), GetBoundingSphereRadius(o))

RECURSIVE RayCastLoop_TakeEqual(_, _, _, _, _, _)
RayCastLoop_TakeEqual(list, i, rayOrigin, rayDirection, closestDistance, closestObject) ==
    IF i > Len(list) THEN closestObject
    ELSE LET o == objects[list[i]]
             r == RayHit(o, rayOrigin, rayDirection)
         IN  IF o.m_active /\ o.m_visible /\ r.hit
                /\ r.distance > 0 /\ r.distance <= closestDistance
             THEN RayCastLoop_TakeEqual(list, i + 1, rayOrigin, rayDirection, r.distance, list[i])
             ELSE RayCastLoop_TakeEqual(list, i + 1, rayOrigin, rayDirection,
                                        closestDistance, closestObject)

\* the loop of RayCast from list index i on: the closest object at its end
RECURSIVE RayCastLoop(_, _, _, _, _, _)
RayCastLoop(list, i, rayOrigin, rayDirection, closestDistance, closestObject) ==
    IF i > Len(list) THEN closestObject
    ELSE LET o == objects[list[i]]
             r == RayHit(o, rayOrigin, rayDirection)
         IN  IF o.m_active /\ o.m_visible /\ r.hit
                /\ r.distance > 0 /\ r.distance < closestDistance
             THEN RayCastLoop(list, i + 1, rayOrigin, rayDirection, r.distance, list[i])
             ELSE RayCastLoop(list, i + 1, rayOrigin, rayDirection,
                              closestDistance, closestObject)

\* ObjectManager::RayCast over a given entity list: the pointer returned
RayCastOver(list, rayOrigin, rayDirection, maxDistance) ==
    RayCastLoop(list, 1, rayOrigin, rayDirection, maxDistance, NULL)

RayCast(rayOrigin, rayDirection, maxDistance) ==
    /\ last' = [op |-> "RayCast", arg |-> <<rayOrigin, rayDirection, maxDistance>>,
                ret |-> RayCastOver(m_objects, rayOrigin, rayDirection, maxDistance)]
    /\ UNCHANGED <<s_nextID, objects, shapes, lights, m_objects, m_objectTags, window>>

----------------------------------------------------------------------------
(* ObjectManager: the per-frame passes *)

\* the virtual Update: Bezier3DObject::Update advances m_animationTime,
\* Object::Update (inherited by the other classes) does nothing
UpdateResult(heap, p, deltaTime) ==
    IF heap[p].kind = "Bezier3DObject"
    THEN [heap EXCEPT ![p].m_animationTime = @ + deltaTime]
    ELSE heap

\* the loop of UpdateAll from list index i on: the object heap afterwards and
\* the objects Update was invoked on, in the order of the invocations
RECURSIVE UpdateLoop(_, _, _, _)
UpdateLoop(i, deltaTime, heap, calls) ==
    IF i > Len(m_objects) THEN [heap |-> heap, calls |-> calls]
    ELSE LET p == m_objects[i] IN
         IF heap[p].m_active
         THEN UpdateLoop(i + 1, deltaTime, UpdateResult(heap, p, deltaTime), Append(calls, p))
         ELSE UpdateLoop(i + 1, deltaTime, heap, calls)

UpdateAll(deltaTime) ==
    LET r == UpdateLoop(1, deltaTime, objects, <<>>) IN
    /\ \A p \in Ptrs : r.heap[p].m_animationTime <= MaxAnim
    /\ objects' = r.heap
    /\ last' = [op |-> "UpdateAll", arg |-> deltaTime, ret |-> r.calls]
    /\ UNCHANGED <<s_nextID, shapes, lights, m_objects, m_objectTags, window>>

\* Object::Draw: the shapes drawn, none when inactive, invisible or shapeless
ObjectDraw(o) ==
    IF ~o.m_active \/ ~o.m_visible \/ o.m_shape = NULL THEN <<>> ELSE <<o.m_shape>>

\* LightObject::Draw: the light heap afterwards
LightDraw(lightHeap, o) ==
    IF ~o.m_active \/ ~o.m_visible THEN lightHeap
    ELSE IF o.m_light # NULL THEN [lightHeap EXCEPT ![o.m_light] = o.m_pos]
    ELSE lightHeap

\* the virtual Draw of the object at p: the light heap afterwards and the
\* draws issued, each the object with the shape drawn
DrawResult(lightHeap, p) ==
    LET o == objects[p]
        drawn == [i \in 1..Len(ObjectDraw(o)) |-> <<p, ObjectDraw(o)[i]>>]
    IN  IF o.kind = "LightObject"
        THEN [lightHeap |-> LightDraw(lightHeap, o),
              draws |-> IF ~o.m_active \/ ~o.m_visible THEN <<>> ELSE drawn]
        ELSE [lightHeap |-> lightHeap, draws |-> drawn]

\* obj->Draw(shader) called on the object at p
Draw(p) ==
    LET r == DrawResult(lights, p) IN
    /\ lights' = r.lightHeap
    /\ last' = [op |-> "Draw", arg |-> p, ret |-> r.draws]
    /\ UNCHANGED <<s_nextID, objects, shapes, m_objects, m_objectTags, window>>

\* the loop of DrawAll from list index i on
RECURSIVE DrawLoop(_, _, _)
DrawLoop(i, lightHeap, draws) ==
    IF i > Len(m_objects) THEN [lightHeap |-> lightHeap, draws |-> draws]
    ELSE LET p == m_objects[i] IN
         IF IsActive(p) /\ IsVisible(p)
         THEN LET r == DrawResult(lightHeap, p)
              IN  DrawLoop(i + 1, r.lightHeap, draws \o r.draws)
         ELSE DrawLoop(i + 1, lightHeap, draws)

DrawAll ==
    LET r == DrawLoop(1, lights, <<>>) IN
    /\ lights' = r.lightHeap
    /\ last' = [op |-> "DrawAll", arg |-> NULL, ret |-> r.draws]
    /\ UNCHANGED <<s_nextID, objects, shapes, m_objects, m_objectTags, window>>

----------------------------------------------------------------------------
(* ObjectManager: tags *)

\* the elements of a set of integers in ascending order
RECURSIVE Ascending(_)
Ascending(S) ==
    IF S = {} THEN <<>>
    ELSE LET m == CHOOSE x \in S : \A y \in S : x <= y
         IN  <<m>> \o Ascending(S \ {m})

\* the keys of a std::map in iteration (ascending) order
SortedKeys(map) == Ascending(DOMAIN map)

\* m_objectTags[id]: the mapped vector, default-constructed when absent
TagsAt(map, id) == IF id \in DOMAIN map THEN map[id] ELSE <<>>

MapPut(map, key, val) ==
    [k \in (DOMAIN map) \cup {key} |-> IF k = key THEN val ELSE map[k]]

TagResult_AlwaysAppend(list, map, id, tag) ==
    IF FindIf(list, WithID(id)) # 0
    THEN MapPut(map, id, Append(TagsAt(map, id), tag))
    ELSE map

TagResult_NoLookup(list, map, id, tag) ==
    LET tags == TagsAt(map, id) IN
    MapPut(map, id, IF FindIf(tags, {tag}) = 0 THEN Append(tags, tag) ELSE tags)

\* TagObject: the tag index after the call
TagResult(list, map, id, tag) ==
    LET it == FindIf(list, WithID(id))
        tags == TagsAt(map, id)
        tagIt == FindIf(tags, {tag})
    IN  IF it # 0
        THEN MapPut(map, id, IF tagIt = 0 THEN Append(tags, tag) ELSE tags)
        ELSE map

TagObject(id, tag) ==
    /\ m_objectTags' = TagResult(m_objects, m_objectTags, id, tag)
    /\ last' = [op |-> "TagObject", arg |-> <<id, tag>>, ret |-> NULL]
    /\ UNCHANGED <<s_nextID, objects, shapes, lights, m_objects, window>>

\* UntagObject: the tag index after the call
UntagResult(map, id, tag) ==
    IF id \in DOMAIN map
    THEN LET tags == map[id]
             it == FindIf(tags, {tag})
         IN  IF it # 0 THEN [map EXCEPT ![id] = Erase(tags, it)] ELSE map
    ELSE map

UntagObject(id, tag) ==
    /\ m_objectTags' = UntagResult(m_objectTags, id, tag)
    /\ last' = [op |-> "UntagObject", arg |-> <<id, tag>>, ret |-> NULL]
    /\ UNCHANGED <<s_nextID, objects, shapes, lights, m_objects, window>>

ClearAllTags ==
    /\ m_objectTags' = EmptyMap
    /\ last' = [op |-> "ClearAllTags", arg |-> NULL, ret |-> NULL]
    /\ UNCHANGED <<s_nextID, objects, shapes, lights, m_objects, window>>

ByTagResult_AnyTag(list, map, tag) ==
    LET keys == SortedKeys(map)
        Holds(k) == LookupByID(list, k) # NULL
        kept == SelectSeq(keys, Holds)
    IN  [i \in 1..Len(kept) |-> LookupByID(list, kept[i])]

\* GetObjectsByTag: the vector returned, one pointer per tag-index entry
\* that holds the tag, in the order of the map's keys
ByTagResult(list, map, tag) ==
    LET keys == SortedKeys(map)
        Holds(k) == /\ FindIf(map[k], {tag}) # 0
                    /\ LookupByID(list, k) # NULL
        kept == SelectSeq(keys, Holds)
    IN  [i \in 1..Len(kept) |-> LookupByID(list, kept[i])]

GetObjectsByTag(tag) == ByTagResult(m_objects, m_objectTags, tag)

\* Object::SetName
SetName(p, name) ==
    /\ objects' = [objects EXCEPT ![p].m_name = name]
    /\ last' = [op |-> "SetName", arg |-> p, ret |-> NULL]
    /\ UNCHANGED <<s_nextID, shapes, lights, m_objects, m_objectTags, window>>

----------------------------------------------------------------------------
(* Curve arithmetic.  A float of the curve code is an exact rational        *)
(* <<numerator, denominator>> in lowest terms with a positive denominator;  *)
(* rounding is not modelled.  A curve point is a triple of such numbers.    *)

IAbs(x) == IF x < 0 THEN -x ELSE x

RECURSIVE GCD(_, _)
GCD(a, b) == IF b = 0 THEN a ELSE GCD(b, a % b)

\* the float n / d, d # 0
Rat(n, d) ==
    LET g == GCD(IAbs(n), IAbs(d))
        sgn == IF d < 0 THEN -1 ELSE 1
    IN  <<(sgn * n) \div g, (sgn * d) \div g>>

RZero == <<0, 1>>
ROne == <<1, 1>>
RAdd(a, b) == Rat(a[1] * b[2] + b[1] * a[2], a[2] * b[2])
RSub(a, b) == Rat(a[1] * b[2] - b[1] * a[2], a[2] * b[2])
RMul(a, b) == Rat(a[1] * b[1], a[2] * b[2])
RDiv(a, b) == Rat(a[1] * b[2], a[2] * b[1])
RLess(a, b) == a[1] * b[2] < b[1] * a[2]
RLeq(a, b) == a[1] * b[2] <= b[1] * a[2]
\* std::abs
RAbs(a) == <<IAbs(a[1]), a[2]>>

\* kEpsilon = 1e-5f
kEpsilon == <<1, 100000>>

\* glm::vec3 of floats, from integer coordinates
Point(v) == <<Rat(v[1], 1), Rat(v[2], 1), Rat(v[3], 1)>>
PZero == <<RZero, RZero, RZero>>
\* glm::vec3 operator+ and operator*(float)
PAdd(a, b) == <<RAdd(a[1], b[1]), RAdd(a[2], b[2]), RAdd(a[3], b[3])>>
PScale(a, r) == <<RMul(a[1], r), RMul(a[2], r), RMul(a[3], r)>>

----------------------------------------------------------------------------
(* BezierCurve and ControlLines (shapes) *)

\* tmp[i] = tmp[i] * t + tmp[i + 1] * (1.0f - t)
Lerp_Swapped(a, b, t) == PAdd(PScale(a, t), PScale(b, RSub(ROne, t)))

\* tmp[i] = tmp[i] * (1.0f - t) + tmp[i + 1] * t
Lerp(a, b, t) == PAdd(PScale(a, RSub(ROne, t)), PScale(b, t))

\* the inner loop of evaluateBezier, from i on (tmp is 1-based here)
RECURSIVE BezierInner(_, _, _, _)
BezierInner(tmp, i, upto, t) ==
    IF i > upto THEN tmp
    ELSE BezierInner([tmp EXCEPT ![i + 1] = Lerp(tmp[i + 1], tmp[i + 2], t)], i + 1, upto, t)

\* the outer loop of evaluateBezier, from round r on
RECURSIVE BezierOuter(_, _, _, _)
BezierOuter(tmp, r, n, t) ==
    IF r > n THEN tmp
    ELSE BezierOuter(BezierInner(tmp, 0, n - r, t), r + 1, n, t)

\* evaluateBezier (de Casteljau)
evaluateBezier(P, t) ==
    IF P = <<>> THEN PZero
    ELSE BezierOuter(P, 1, Len(P) - 1, t)[1]

Max(a, b) == IF a > b THEN a ELSE b

\* BezierCurve::BezierCurve: m_samples(64), no control points, no vertices.
\* A vertex is kept as the parameter it was sampled at: its nine floats are
\* evaluateBezier(m_controlPoints, t), the constant normal and the colour.
BezierCurveNew ==
    [kind |-> "BezierCurve", m_position |-> VZero, m_rotation |-> VZero, m_scale |-> VOne,
     m_controlPoints |-> <<>>, m_vertices |-> <<>>, m_samples |-> 64]

\* BezierCurve::Rebuild
BezierRebuild(c) ==
    IF Len(c.m_controlPoints) < 2
    THEN [c EXCEPT !.m_vertices = <<>>]
    ELSE [c EXCEPT !.m_vertices = [k \in 1..(c.m_samples + 1) |-> Rat(k - 1, c.m_samples)]]

\* BezierCurve::SetControlPoints
BezierSetControlPoints(c, controlPoints) ==
    BezierRebuild([c EXCEPT !.m_controlPoints = controlPoints])

\* BezierCurve::SetResolution
BezierSetResolution(c, samples) ==
    BezierRebuild([c EXCEPT !.m_samples = Max(2, samples)])

\* the position of a vertex of a Bezier curve
BezierVertex(c, k) == evaluateBezier(c.m_controlPoints, c.m_vertices[k])

\* ControlLines::ControlLines
ControlLinesNew ==
    [kind |-> "ControlLines", m_position |-> VZero, m_rotation |-> VZero, m_scale |-> VOne,
     m_controlPoints |-> <<>>, m_vertices |-> <<>>]

\* ControlLines::SetControlPoints with Rebuild: two vertices per pair of
\* adjacent control points
LinesSetControlPoints(c, controlPoints) ==
    [c EXCEPT !.m_controlPoints = controlPoints,
              !.m_vertices =
                 IF Len(controlPoints) < 2 THEN <<>>
                 ELSE [k \in 1..(2 * (Len(controlPoints) - 1)) |-> controlPoints[((k - 1) \div 2) + 1 + ((k - 1) % 2)]]]

----------------------------------------------------------------------------
(* NURBSCurve (shape): state, knot synthesis, evaluation, rebuild *)

\* element i of a std::vector, counted from 0 as in the code
At(v, i) == v[i + 1]

\* NURBSCurve::NURBSCurve(degree, color): m_degree(std::max(1, degree)),
\* m_samples(96), everything else empty.  A vertex is kept as the parameter u
\* it was sampled at: its nine floats are evaluatePoint(u), the constant
\* normal and the colour.
NURBSCurveNew(degree) ==
    [kind |-> "NURBSCurve", m_position |-> VZero, m_rotation |-> VZero, m_scale |-> VOne,
     m_degree |-> Max(1, degree), m_controlPoints |-> <<>>, m_weights |-> <<>>,
     m_knots |-> <<>>, m_samples |-> 96, m_vertices |-> <<>>]

\* NURBSCurve::canEvaluate
canEvaluate(c) == Len(c.m_controlPoints) >= c.m_degree + 1

OpenUniform_NoOffset(n, degree) ==
    [k \in 1..(n + degree + 1) |->
        IF k - 1 <= degree THEN RZero
        ELSE IF k - 1 >= n THEN ROne
        ELSE Rat(k - 1, n)]

\* the open-uniform knot vector the code generates for n control points (the
\* loop of ensureKnotVector, repeated in evaluatePoint, SampleBSpline and
\* ToBezierControlPolygons)
OpenUniform(n, degree) ==
    [k \in 1..(n + degree + 1) |->
        IF k - 1 <= degree THEN RZero
        ELSE IF k - 1 >= n THEN ROne
        ELSE Rat(k - 1 - degree, n - degree)]

ensureKnotVector_Keep(c) == c

\* NURBSCurve::ensureKnotVector
ensureKnotVector(c) ==
    LET n == Len(c.m_controlPoints)
        needed == n + c.m_degree + 1
    IN  IF needed <= 0 THEN c
        ELSE IF Len(c.m_knots) = needed THEN c
        ELSE [c EXCEPT !.m_knots = OpenUniform(n, c.m_degree)]

\* the local copy "knots" of evaluatePoint and ToBezierControlPolygons
KnotsOrGenerated(c) ==
    IF Len(c.m_knots) # Len(c.m_controlPoints) + c.m_degree + 1
    THEN OpenUniform(Len(c.m_controlPoints), c.m_degree)
    ELSE c.m_knots

\* the binary search of findSpan
RECURSIVE FindSpanLoop(_, _, _, _, _)
FindSpanLoop(low, high, mid, u, knots) ==
    IF RLess(u, At(knots, mid)) \/ RLeq(At(knots, mid + 1), u)
    THEN IF RLess(u, At(knots, mid))
         THEN FindSpanLoop(low, mid, (low + mid) \div 2, u, knots)
         ELSE FindSpanLoop(mid, high, (mid + high) \div 2, u, knots)
    ELSE mid

findSpan_PastEnd(degree, n, u, knots) ==
    IF RLeq(At(knots, n + 1), u) THEN n + 1
    ELSE IF RLeq(u, At(knots, degree)) THEN degree
    ELSE FindSpanLoop(degree, n + 1, (degree + n + 1) \div 2, u, knots)

\* NURBSCurve::findSpan (n is the last control-point index)
findSpan(degree, n, u, knots) ==
    IF RLeq(At(knots, n + 1), u) THEN n
    ELSE IF RLeq(u, At(knots, degree)) THEN degree
    ELSE FindSpanLoop(degree, n + 1, (degree + n + 1) \div 2, u, knots)

\* the inner loop of basisFunctions for one j, from r on; N holds N[0..degree]
RECURSIVE BasisInner(_, _, _, _, _, _, _)
BasisInner(N, j, r, saved, span, u, knots) ==
    IF r >= j THEN [N EXCEPT ![j + 1] = saved]
    ELSE LET right == RSub(At(knots, span + r + 1), u)
             left == RSub(u, At(knots, span + 1 - (j - r)))
             denom == RAdd(right, left)
             temp == IF denom # RZero THEN RDiv(At(N, r), denom) ELSE RZero
         IN  BasisInner([N EXCEPT ![r + 1] = RAdd(saved, RMul(right, temp))],
                        j, r + 1, RMul(left, temp), span, u, knots)

RECURSIVE BasisOuter(_, _, _, _, _, _)
BasisOuter(N, j, degree, span, u, knots) ==
    IF j > degree THEN N
    ELSE BasisOuter(BasisInner(N, j, 0, RZero, span, u, knots), j + 1, degree, span, u, knots)

\* NURBSCurve::basisFunctions
basisFunctions(degree, span, u, knots) ==
    BasisOuter([k \in 1..(degree + 1) |-> IF k = 1 THEN ROne ELSE RZero],
               1, degree, span, u, knots)

\* the weight evaluatePoint uses for control point idx (no override)
WeightAt(c, idx) == IF idx < Len(c.m_weights) THEN At(c.m_weights, idx) ELSE ROne

\* the accumulation loop of evaluatePoint from j on
RECURSIVE Accumulate(_, _, _, _, _, _)
Accumulate(c, N, span, j, numerator, denominator) ==
    IF j > c.m_degree THEN [numerator |-> numerator, denominator |-> denominator]
    ELSE LET idx == span - c.m_degree + j IN
         IF idx < 0 \/ idx >= Len(c.m_controlPoints)
         THEN Accumulate(c, N, span, j + 1, numerator, denominator)
         ELSE LET coeff == RMul(At(N, j), WeightAt(c, idx))
              IN  Accumulate(c, N, span, j + 1,
                             PAdd(numerator, PScale(At(c.m_controlPoints, idx), coeff)),
                             RAdd(denominator, coeff))

\* NURBSCurve::evaluatePoint(u)
evaluatePoint(c, u) ==
    IF ~canEvaluate(c) THEN PZero
    ELSE LET n == Len(c.m_controlPoints) - 1
             knots == KnotsOrGenerated(c)
             span == findSpan(c.m_degree, n, u, knots)
             N == basisFunctions(c.m_degree, span, u, knots)
             acc == Accumulate(c, N, span, 0, PZero, RZero)
         IN  IF RLess(RAbs(acc.denominator), kEpsilon) THEN PZero
             ELSE <<RDiv(acc.numerator[1], acc.denominator),
                    RDiv(acc.numerator[2], acc.denominator),
                    RDiv(acc.numerator[3], acc.denominator)>>

\* the sampling loop of Rebuild: the parameter of sample i
SampleParameter(c, uStart, uEnd, i) ==
    IF i = c.m_samples THEN RSub(uEnd, kEpsilon)
    ELSE RAdd(uStart, RMul(RSub(uEnd, uStart), Rat(i, c.m_samples)))

NurbsRebuild_NoSpanGuard(c) ==
    LET cleared == [c EXCEPT !.m_vertices = <<>>] IN
    IF ~canEvaluate(cleared) THEN cleared
    ELSE LET k == ensureKnotVector(cleared)
             uStart == At(k.m_knots, k.m_degree)
             uEnd == At(k.m_knots, Len(k.m_knots) - k.m_degree - 1)
         IN  [k EXCEPT !.m_vertices =
                 [i \in 1..(k.m_samples + 1) |-> SampleParameter(k, uStart, uEnd, i - 1)]]

\* NURBSCurve::Rebuild
NurbsRebuild(c) ==
    LET cleared == [c EXCEPT !.m_vertices = <<>>] IN
    IF ~canEvaluate(cleared) THEN cleared
    ELSE LET k == ensureKnotVector(cleared) IN
         IF k.m_knots = <<>> THEN k
         ELSE LET uStart == At(k.m_knots, k.m_degree)
                  uEnd == At(k.m_knots, Len(k.m_knots) - k.m_degree - 1)
              IN  IF RLess(RSub(uEnd, uStart), kEpsilon) THEN k
                  ELSE [k EXCEPT !.m_vertices =
                           [i \in 1..(k.m_samples + 1) |-> SampleParameter(k, uStart, uEnd, i - 1)]]

\* NURBSCurve::SetDegree
NurbsSetDegree(c, degree) == NurbsRebuild([c EXCEPT !.m_degree = Max(1, degree)])

\* NURBSCurve::SetControlPoints
NurbsSetControlPoints(c, controlPoints) ==
    NurbsRebuild([c EXCEPT !.m_controlPoints = controlPoints,
                           !.m_weights = IF Len(c.m_weights) # Len(controlPoints)
                                         THEN [k \in 1..Len(controlPoints) |-> ROne]
                                         ELSE c.m_weights])

\* NURBSCurve::SetWeights
NurbsSetWeights(c, weights) ==
    NurbsRebuild([c EXCEPT !.m_weights =
                     [k \in 1..Len(c.m_controlPoints) |->
                         IF k <= Len(weights) THEN weights[k] ELSE ROne]])

\* std::sort on a vector of floats
RECURSIVE SortFloats(_)
SortFloats(v) ==
    IF v = <<>> THEN <<>>
    ELSE LET m == CHOOSE i \in 1..Len(v) : \A j \in 1..Len(v) : RLeq(v[i], v[j])
         IN  <<v[m]>> \o SortFloats(SubSeq(v, 1, m - 1) \o SubSeq(v, m + 1, Len(v)))

\* NURBSCurve::SetKnotVector
NurbsSetKnotVector(c, knotVector) ==
    NurbsRebuild([c EXCEPT !.m_knots = SortFloats(knotVector)])

\* NURBSCurve::SetResolution
NurbsSetResolution(c, samples) == NurbsRebuild([c EXCEPT !.m_samples = Max(2, samples)])

----------------------------------------------------------------------------
(* NURBSCurve: knot insertion and Bezier decomposition *)

\* glm::vec4 arithmetic
HZero == <<RZero, RZero, RZero, RZero>>
HAdd(a, b) == <<RAdd(a[1], b[1]), RAdd(a[2], b[2]), RAdd(a[3], b[3]), RAdd(a[4], b[4])>>
HScale(a, r) == <<RMul(a[1], r), RMul(a[2], r), RMul(a[3], r), RMul(a[4], r)>>

\* NURBSCurve::knotMultiplicity
knotMultiplicity(knot, knots) ==
    Cardinality({i \in 1..Len(knots) : RLess(RAbs(RSub(knots[i], knot)), kEpsilon)})

\* NURBSCurve::insertKnotOnce: the knot vector and the homogeneous points it
\* leaves.  R has p - s + 1 elements, so for s = p the read R[p - 1 - s] is
\* R[-1], outside the vector: it yields outOfRange, any value at all.
insertKnotOnce(degree, u, knots, homoPts, outOfRange) ==
    LET n == Len(homoPts) - 1
        m == n + degree + 1
    IN  IF degree <= 0 \/ n < degree THEN [knots |-> knots, homoPts |-> homoPts]
        ELSE
        LET k == findSpan(degree, n, u, knots)
            s == knotMultiplicity(u, knots)
            L == k - degree + 1
            UQ == [i \in 1..(Len(knots) + 1) |->
                      IF i - 1 <= k THEN At(knots, i - 1)
                      ELSE IF i - 1 = k + 1 THEN u
                      ELSE At(knots, i - 2)]
            alpha(i) == RDiv(RSub(u, At(knots, L + i)),
                             RSub(At(knots, i + k + 1), At(knots, L + i)))
            \* R after the blending loop
            R(i) == IF i <= degree - 1 - s
                    THEN HAdd(HScale(At(homoPts, k - degree + i + 1), alpha(i)),
                              HScale(At(homoPts, k - degree + i), RSub(ROne, alpha(i))))
                    ELSE At(homoPts, k - degree + i)
            \* Q[j] after the assignments, the last one made to index j winning
            Q == [i \in 1..(Len(homoPts) + 1) |->
                    LET j == i - 1 IN
                    IF j >= L + 1 /\ j <= k - s - 1 THEN R(j - L)
                    ELSE IF j = k - s
                         THEN (IF degree - 1 - s >= 0 THEN R(degree - 1 - s) ELSE outOfRange)
                    ELSE IF j = L THEN R(0)
                    ELSE IF j >= k - s + 1 /\ j <= n + 1 THEN At(homoPts, j - 1)
                    ELSE IF j <= k - degree THEN At(homoPts, j)
                    ELSE HZero]
        IN  [knots |-> UQ, homoPts |-> Q]

\* for (int r = 0; r < neededInsert; ++r) insertKnotOnce(u, knots, homoPts)
RECURSIVE InsertTimes(_, _, _, _, _, _)
InsertTimes(times, degree, u, knots, homoPts, outOfRange) ==
    IF times <= 0 THEN [knots |-> knots, homoPts |-> homoPts]
    ELSE LET r == insertKnotOnce(degree, u, knots, homoPts, outOfRange)
         IN  InsertTimes(times - 1, degree, u, r.knots, r.homoPts, outOfRange)

\* the loop of ToBezierControlPolygons that raises the multiplicity of every
\* interior knot to degree + 1, from index idx on
RECURSIVE RaiseMultiplicity(_, _, _, _, _)
RaiseMultiplicity(idx, degree, knots, homoPts, outOfRange) ==
    IF idx >= Len(knots) - degree - 1 THEN [knots |-> knots, homoPts |-> homoPts]
    ELSE LET u == At(knots, idx)
             mult == knotMultiplicity(u, knots)
             neededInsert == (degree + 1) - mult
         IN  IF neededInsert > 0
             THEN LET r == InsertTimes(neededInsert, degree, u, knots, homoPts, outOfRange)
                  IN  RaiseMultiplicity(idx, degree, r.knots, r.homoPts, outOfRange)
             ELSE RaiseMultiplicity(idx + mult, degree, knots, homoPts, outOfRange)

\* the homogeneous control points ToBezierControlPolygons starts from
Homogeneous(c) ==
    [k \in 1..Len(c.m_controlPoints) |->
        LET w0 == WeightAt(c, k - 1)
            w == IF RLess(RAbs(w0), kEpsilon) THEN kEpsilon ELSE w0
            P == c.m_controlPoints[k]
        IN  <<RMul(P[1], w), RMul(P[2], w), RMul(P[3], w), w>>]

\* the knot spans ToBezierControlPolygons counts
SpanCount_SkipFirst(degree, knots) ==
    Cardinality({i \in (degree + 1)..(Len(knots) - 1 - degree - 1) :
                    RLess(kEpsilon, RAbs(RSub(At(knots, i + 1), At(knots, i))))})

SpanCount(degree, knots) ==
    Cardinality({i \in (degree)..(Len(knots) - 1 - degree - 1) :
                    RLess(kEpsilon, RAbs(RSub(At(knots, i + 1), At(knots, i))))})

Segment_NoDivide(degree, homoPts, offset) ==
    [j \in 1..(degree + 1) |->
        <<At(homoPts, offset + j - 1)[1], At(homoPts, offset + j - 1)[2],
          At(homoPts, offset + j - 1)[3]>>]

\* one segment: degree + 1 points from offset on, back from homogeneous form
Segment(degree, homoPts, offset) ==
    [j \in 1..(degree + 1) |->
        LET pw == At(homoPts, offset + j - 1)
            w == IF RLess(RAbs(pw[4]), kEpsilon) THEN kEpsilon ELSE pw[4]
        IN  <<RDiv(pw[1], w), RDiv(pw[2], w), RDiv(pw[3], w)>>]

\* NURBSCurve::ToBezierControlPolygons
ToBezierControlPolygons(c, outOfRange) ==
    IF ~canEvaluate(c) THEN <<>>
    ELSE LET degree == c.m_degree
             r == RaiseMultiplicity(degree + 1, degree, KnotsOrGenerated(c),
                                    Homogeneous(c), outOfRange)
             spanCount == SpanCount(degree, r.knots)
         IN  [s \in 1..spanCount |-> Segment(degree, r.homoPts, (s - 1) * degree)]

----------------------------------------------------------------------------
(* Window: the curve scene.  The operations below run inside one call of   *)
(* key_callback_bezier, so they work on a world value: the identity         *)
(* counter, the two heaps and the registry as they stand at that point of   *)
(* the call.                                                                *)

World ==
    [s_nextID |-> s_nextID, objects |-> objects, shapes |-> shapes,
     m_objects |-> m_objects, m_objectTags |-> m_objectTags]

\* the predicates of the registry lookups over the heap of a world
HeapWithID(heap, id) == {p \in 1..Len(heap) : heap[p].m_id = id}
HeapWithName(heap, name) == {p \in 1..Len(heap) : heap[p].m_name = name}

\* ObjectManager::GetObjectByName
SceneObjectByName(w, name) ==
    LET it == FindIf(w.m_objects, HeapWithName(w.objects, name)) IN
    IF it # 0 THEN w.m_objects[it] ELSE NULL

\* ObjectManager::GetObjectsByTag
SceneObjectsByTag(w, tag) ==
    LET keys == SortedKeys(w.m_objectTags)
        Find(k) == FindIf(w.m_objects, HeapWithID(w.objects, k))
        Holds(k) == FindIf(w.m_objectTags[k], {tag}) # 0 /\ Find(k) # 0
        kept == SelectSeq(keys, Holds)
    IN  [i \in 1..Len(kept) |-> w.m_objects[Find(kept[i])]]

\* ObjectManager::TagObject
SceneTagObject(w, id, tag) ==
    LET it == FindIf(w.m_objects, HeapWithID(w.objects, id))
        tags == TagsAt(w.m_objectTags, id)
    IN  IF it # 0
        THEN [w EXCEPT !.m_objectTags =
                 MapPut(@, id, IF FindIf(tags, {tag}) = 0 THEN Append(tags, tag) ELSE tags)]
        ELSE w

\* ObjectManager::RemoveObjectByID
SceneRemoveObjectByID(w, id) ==
    LET it == FindIf(w.m_objects, HeapWithID(w.objects, id)) IN
    IF it # 0
    THEN [w EXCEPT !.m_objects = Erase(@, it),
                   !.m_objectTags = MapErase(@, w.objects[w.m_objects[it]].m_id)]
    ELSE w

\* make_shared of a shape, make_shared<GeometryObject>(pos, shape), SetName,
\* SetVisible(true), SetActive(true), AddObject: the entity takes the next
\* identity and the end of the list
SceneAdd(w, name, pos, shape) ==
    LET sh == Len(w.shapes) + 1
        obj == [NewObject("GeometryObject", pos, sh, NULL) EXCEPT
                   !.m_id = w.s_nextID, !.m_name = name,
                   !.m_visible = TRUE, !.m_active = TRUE]
    IN  [w EXCEPT !.s_nextID = NextID(@),
                  !.objects = Append(@, obj),
                  !.shapes = Append(@, shape),
                  !.m_objects = AddResult(@, Len(w.objects) + 1)]

\* key_callback_bezier, right button: a sphere at the camera position, named
\* and tagged as a control point
CreateControlPoint(w, placePos) ==
    LET ctrlShape == [kind |-> "Sphere", m_position |-> placePos,
                      m_rotation |-> VZero, m_scale |-> VOne]
        name == "bezier_control_" \o to_string(w.s_nextID)
    IN  SceneTagObject(SceneAdd(w, name, placePos, ctrlShape), w.s_nextID, "bezier_control")

\* std::sort of entity pointers by GetID
SortByID(heap, ptrs) ==
    LET ids == Ascending({heap[ptrs[i]].m_id : i \in 1..Len(ptrs)}) IN
    [k \in 1..Len(ids) |-> ptrs[CHOOSE i \in 1..Len(ptrs) : heap[ptrs[i]].m_id = ids[k]]]

\* for (auto &c : ctrlObjs) pts.push_back(c->GetPosition())
PositionsOf(heap, ctrlObjs) ==
    [k \in 1..Len(ctrlObjs) |-> Point(heap[ctrlObjs[k]].m_pos)]

\* pts: the positions of the entities tagged "bezier_control", by identity
ControlPositions(w) ==
    PositionsOf(w.objects, SortByID(w.objects, SceneObjectsByTag(w, "bezier_control")))

\* std::clamp
Clamp(v, lo, hi) == IF v < lo THEN lo ELSE IF hi < v THEN hi ELSE v

DegreeFor_Unclamped(nurbsDegree, count) == nurbsDegree

\* degreeUsed of updateCurve and updateNurbsShape, for pts of size count
DegreeFor(nurbsDegree, count) == Clamp(nurbsDegree, 1, Max(1, count - 1))
DegreeUsed(w, nurbsDegree) == DegreeFor(nurbsDegree, Len(ControlPositions(w)))

\* the resolutions the window gives its curves
CurveResolution == 96
PieceResolution == 48

\* obj->GetShape() of the listed entity of that name
ShapeOfNamed(w, name) == w.objects[SceneObjectByName(w, name)].m_shape

\* if (!obj) { create the entity with its shape and list it }
EnsureNamed(w, name, shape) ==
    IF SceneObjectByName(w, name) = NULL THEN SceneAdd(w, name, VZero, shape) ELSE w

\* dynamic_pointer_cast<BezierCurve>(shape)->SetControlPoints(points)
SetBezierShape(w, sh, points) ==
    IF sh # NULL /\ w.shapes[sh].kind = "BezierCurve"
    THEN [w EXCEPT !.shapes[sh] = BezierSetControlPoints(@, points)]
    ELSE w

\* dynamic_pointer_cast<ControlLines>(shape)->SetControlPoints(points)
SetLinesShape(w, sh, points) ==
    IF sh # NULL /\ w.shapes[sh].kind = "ControlLines"
    THEN [w EXCEPT !.shapes[sh] = LinesSetControlPoints(@, points)]
    ELSE w

\* if (obj && obj->HaveShape()) { cast the shape and set its control points }
SetBezierNamed(w, name, points) == SetBezierShape(w, ShapeOfNamed(w, name), points)
SetLinesNamed(w, name, points) == SetLinesShape(w, ShapeOfNamed(w, name), points)

\* updateCurve, the part for "bezier_curve"
UpdateBezierCurve(w, pts) ==
    SetBezierNamed(
        EnsureNamed(w, "bezier_curve", BezierSetResolution(BezierCurveNew, CurveResolution)),
        "bezier_curve", pts)

\* updateCurve, the part for "control_lines"
UpdateControlLines(w, pts) ==
    SetLinesNamed(EnsureNamed(w, "control_lines", ControlLinesNew), "control_lines", pts)

\* if (!weights.empty()) curveShape->SetWeights(weights)
SetWeightsIfAny(c, weights) == IF weights # <<>> THEN NurbsSetWeights(c, weights) ELSE c

\* updateNurbsShape: the four setters called on the curve shape
ConfigureNurbs(c, degreeUsed, weights, pts) ==
    NurbsSetControlPoints(
        SetWeightsIfAny(NurbsSetDegree(NurbsSetResolution(c, CurveResolution), degreeUsed),
                        weights),
        pts)

\* updateNurbsShape from the cast on: the world it leaves and the shape it returns
SetNurbsShape(w, sh, degreeUsed, weights, pts) ==
    IF sh # NULL /\ w.shapes[sh].kind = "NURBSCurve"
    THEN [w |-> [w EXCEPT !.shapes[sh] = ConfigureNurbs(@, degreeUsed, weights, pts)],
          curveShape |-> sh]
    ELSE [w |-> w, curveShape |-> NULL]

\* the NURBSCurve a missing entity is created with
FreshNurbs(degreeUsed) == NurbsSetResolution(NURBSCurveNew(degreeUsed), CurveResolution)

SetNurbsNamed(w, name, degreeUsed, weights, pts) ==
    SetNurbsShape(w, ShapeOfNamed(w, name), degreeUsed, weights, pts)

\* updateNurbsShape once pts and degreeUsed are computed
UpdateNurbsWith(w, name, degreeUsed, weights, pts) ==
    SetNurbsNamed(EnsureNamed(w, name, FreshNurbs(degreeUsed)), name, degreeUsed, weights, pts)

\* updateNurbsShape for the control positions pts it collects
UpdateNurbsFor(w, nurbsDegree, name, weights, pts) ==
    UpdateNurbsWith(w, name, DegreeFor(nurbsDegree, Len(pts)), weights, pts)

\* Window::updateNurbsShape
updateNurbsShape(w, nurbsDegree, name, weights) ==
    UpdateNurbsFor(w, nurbsDegree, name, weights, ControlPositions(w))

\* std::stoi(nm.substr(nm.rfind('_') + 1)) on the names the scene holds:
\* the number behind the last '_' of a numbered name, -1 where stoi throws
\* because no digit follows it ("bezier_curve", "control_lines", ...).
\* Every name of the scene holds a '_'.
NumberedPrefixes == {"nurbs_bezier_piece_", "bezier_control_", "GeometryObject_"}
StoiSuffix(name) ==
    LET Numbers == {i \in 0..99 : \E pre \in NumberedPrefixes : name = pre \o to_string(i)} IN
    IF Numbers # {} THEN CHOOSE i \in Numbers : TRUE ELSE -1

PieceRemoved_Never(name, count) == FALSE

\* updateBezierPieces: whether a tagged entity of that name is removed when
\* count pieces remain
PieceRemoved(name, count) ==
    \E idx \in {StoiSuffix(name)} : idx = -1 \/ idx >= count

\* updateBezierPieces, first loop, from entry k of the tagged entities on
RECURSIVE RemoveStalePieces(_, _, _, _)
RemoveStalePieces(w, tagged, k, count) ==
    IF k > Len(tagged) THEN w
    ELSE RemoveStalePieces(IF PieceRemoved(w.objects[tagged[k]].m_name, count)
                           THEN SceneRemoveObjectByID(w, w.objects[tagged[k]].m_id)
                           ELSE w,
                           tagged, k + 1, count)

\* the name of piece i (counted from 1)
PieceName(i) == "nurbs_bezier_piece_" \o to_string(i - 1)

EnsurePiece_AlwaysCreate(w, name) ==
    SceneTagObject(SceneAdd(w, name, VZero,
                            BezierSetResolution(BezierCurveNew, PieceResolution)),
                   w.s_nextID, "nurbs_bezier_piece")

\* if (!obj) { create the piece entity, list it and tag it }
EnsurePiece(w, name) ==
    IF SceneObjectByName(w, name) = NULL
    THEN SceneTagObject(SceneAdd(w, name, VZero,
                                 BezierSetResolution(BezierCurveNew, PieceResolution)),
                        w.s_nextID, "nurbs_bezier_piece")
    ELSE w

\* updateBezierPieces, second loop, from piece i (counted from 1) on
RECURSIVE UpdatePieces(_, _, _)
UpdatePieces(w, pieces, i) ==
    IF i > Len(pieces) THEN w
    ELSE UpdatePieces(SetBezierNamed(EnsurePiece(w, PieceName(i)), PieceName(i), pieces[i]),
                      pieces, i + 1)

\* Window::updateBezierPieces
updateBezierPieces(w, pieces) ==
    UpdatePieces(RemoveStalePieces(w, SceneObjectsByTag(w, "nurbs_bezier_piece"), 1,
                                   Len(pieces)),
                 pieces, 1)

\* obj->SetVisible(visible) on every entity of a set
SetVisibleAll(w, ptrs, visible) ==
    [w EXCEPT !.objects =
        [p \in 1..Len(w.objects) |->
            IF p \in ptrs THEN [w.objects[p] EXCEPT !.m_visible = visible] ELSE w.objects[p]]]

\* setVis of updateCurveVisibility
SetVisibleByName(w, name, visible) ==
    SetVisibleAll(w, {SceneObjectByName(w, name)} \ {NULL}, visible)

\* for (auto& obj : pieces) obj->SetVisible(showNURBS)
SetPiecesVisible(w, showNURBS) ==
    SetVisibleAll(w, Range(SceneObjectsByTag(w, "nurbs_bezier_piece")), showNURBS)

\* Window::updateCurveVisibility
updateCurveVisibility(w, showBezier, showBSpline, showNURBS) ==
    SetPiecesVisible(
        SetVisibleByName(
            SetVisibleByName(SetVisibleByName(w, "bezier_curve", showBezier),
                             "bspline_curve", showBSpline),
            "nurbs_curve", showNURBS),
        showNURBS)

\* std::vector<float> uniformWeights(pts.size(), 1.0f)
UnitWeights(count) == [k \in 1..count |-> ROne]

\* updateCurve from the decomposition on: curveShape is the shape of
\* "nurbs_curve", or NULL
UpdateDecomposition(w, curveShape, win, outOfRange) ==
    updateCurveVisibility(
        updateBezierPieces(w, IF curveShape # NULL
                              THEN ToBezierControlPolygons(w.shapes[curveShape], outOfRange)
                              ELSE <<>>),
        win.m_curveDisplay = "BEZIER",
        win.m_curveDisplay = "BSPLINE",
        win.m_curveDisplay = "NURBS")

\* updateCurve from "bspline_curve" on: nurbs is what updateNurbsShape
\* returned for "nurbs_curve"
UpdateSplines(nurbs, pts, win, outOfRange) ==
    UpdateDecomposition(
        updateNurbsShape(nurbs.w, win.m_nurbsDegree, "bspline_curve", UnitWeights(Len(pts))).w,
        nurbs.curveShape, win, outOfRange)

\* updateCurve once pts is collected
UpdateCurveWith(w, pts, win, outOfRange) ==
    UpdateSplines(
        updateNurbsShape(UpdateControlLines(UpdateBezierCurve(w, pts), pts),
                         win.m_nurbsDegree, "nurbs_curve", UnitWeights(Len(pts))),
        pts, win, outOfRange)

\* Window::updateCurve: the world it leaves
updateCurve(w, win, outOfRange) == UpdateCurveWith(w, ControlPositions(w), win, outOfRange)

\* the J and K keys: the display mode before and after the current one
DisplayBefore(mode) ==
    IF mode = "BEZIER" THEN "NURBS" ELSE IF mode = "BSPLINE" THEN "BEZIER" ELSE "BSPLINE"
DisplayAfter(mode) ==
    IF mode = "BEZIER" THEN "BSPLINE" ELSE IF mode = "BSPLINE" THEN "NURBS" ELSE "BEZIER"

\* key_callback_bezier, the keys: [ lowers m_nurbsDegree while it is above
\* 1, ] raises it, J and K turn the display mode
AfterKeys(win, event) ==
    [win EXCEPT !.m_nurbsDegree =
                    IF event = "degDown" /\ @ > 1 THEN @ - 1
                    ELSE IF event = "degUp" THEN @ + 1 ELSE @,
                !.m_curveDisplay =
                    IF event = "J" THEN DisplayBefore(@)
                    ELSE IF event = "K" THEN DisplayAfter(@) ELSE @]

\* key_callback_bezier, right button: a control point at placePos, then updateCurve
PressRight(w, win, event, placePos, outOfRange) ==
    IF event = "RMB"
    THEN updateCurve(CreateControlPoint(w, placePos), win, outOfRange)
    ELSE w

\* isCtrl: hit carries the identity of an entity tagged "bezier_control"
IsControl(w, hit) ==
    /\ hit # NULL
    /\ \E c \in Range(SceneObjectsByTag(w, "bezier_control")) :
          w.objects[c].m_id = w.objects[hit].m_id

\* key_callback_bezier, left button: hit is what castRayAndDetectObjects returns
PressLeft(w, event, hit) ==
    IF event = "LMB" /\ IsControl(w, hit)
    THEN SceneRemoveObjectByID(w, w.objects[hit].m_id)
    ELSE w

\* The end of the shared_ptr lifetimes: an entity the registry no longer lists
\* is destroyed with its shape.  The heaps keep the listed entities, each
\* with its own shape, in the order of the list.
Collect(w) ==
    [w EXCEPT !.objects = [i \in 1..Len(w.m_objects) |->
                              [w.objects[w.m_objects[i]] EXCEPT !.m_shape = i]],
              !.shapes = [i \in 1..Len(w.m_objects) |->
                             w.shapes[w.objects[w.m_objects[i]].m_shape]],
              !.m_objects = [i \in 1..Len(w.m_objects) |-> i]]

\* key_callback_bezier, the closing updateCurve (which sets m_currentDegree)
CloseCallback(w, win, outOfRange) ==
    [world |-> Collect(updateCurve(w, win, outOfRange)),
     window |-> [win EXCEPT !.m_currentDegree = DegreeUsed(w, win.m_nurbsDegree)]]

\* Window::key_callback_bezier with one pressed-edge event (or none): the
\* degree and display keys, the right button, the left button and the
\* closing updateCurve.  The middle button is not pressed.
KeyCallbackWith(w, win, event, placePos, hit, outOfRange) ==
    CloseCallback(PressLeft(PressRight(w, win, event, placePos, outOfRange), event, hit),
                  win, outOfRange)

KeyCallbackResult(event, placePos, hit, outOfRange) ==
    KeyCallbackWith(World, AfterKeys(window, event), event, placePos, hit, outOfRange)

\* the names and identities of the entities tagged "nurbs_bezier_piece"
PiecesListed ==
    [k \in 1..Len(GetObjectsByTag("nurbs_bezier_piece")) |->
        <<objects[GetObjectsByTag("nurbs_bezier_piece")[k]].m_name,
          objects[GetObjectsByTag("nurbs_bezier_piece")[k]].m_id>>]

\* one call of key_callback_bezier as a step of the program; last.ret keeps
\* how many control points and Bezier pieces the registry listed before it,
\* and which pieces
key_callback_bezier(event, placePos, hit, outOfRange) ==
    \E after \in {KeyCallbackResult(event, placePos, hit, outOfRange)} :
        /\ s_nextID' = after.world.s_nextID
        /\ objects' = after.world.objects
        /\ shapes' = after.world.shapes
        /\ m_objects' = after.world.m_objects
        /\ m_objectTags' = after.world.m_objectTags
        /\ window' = after.window
        /\ last' = [op |-> "key_callback_bezier", arg |-> event,
                    ret |-> [controls |-> Len(GetObjectsByTag("bezier_control")),
                             pieces |-> Len(GetObjectsByTag("nurbs_bezier_piece")),
                             found |-> PiecesListed]]
        /\ UNCHANGED lights

----------------------------------------------------------------------------
(* Inputs *)

AnyPtr == 0..Len(objects)
AnyID == 0..MaxObjects
AnyName == UserNames \cup {objects[p].m_name : p \in Ptrs} \cup {"Object_9"}

Init ==
    /\ s_nextID = 0
    /\ objects = <<>>
    /\ shapes = <<>>
    /\ lights = <<>>
    /\ m_objects = <<>>
    /\ m_objectTags = EmptyMap
    /\ window = WindowNew
    /\ last = [op |-> "init", arg |-> NULL, ret |-> NULL]

(* The registry: entity list and tag index. Entities keep the names their
   constructor gave them; renaming is exercised under SpecIdentity. *)
NextRegistry ==
    \/ ConstructDefault(MaxObjects)
    \/ \E obj \in AnyPtr : AddObject(obj)
    \/ \E id \in AnyID : RemoveObjectByID(id)
    \/ \E name \in AnyName : RemoveObjectByName(name)
    \/ RemoveAllObjects
    \/ \E id \in AnyID, tag \in Tags : TagObject(id, tag)
    \/ \E id \in AnyID, tag \in Tags : UntagObject(id, tag)
    \/ ClearAllTags

SpecRegistry == Init /\ [][NextRegistry]_vars

(* One entity model: constructors, transform setters and shape replacement *)
Positions == {VZero, Vec(1, 0, 0)}
Offsets == {Vec(1, 0, 0), Vec(-1, 0, 0)}
Rotations == {VZero, Vec(0, 90, 0)}
Scales == {VOne, Vec(2, 2, 2)}

NextTransform ==
    \/ NewShape
    \/ \E pos \in Positions, shape \in 0..Len(shapes) :
          ConstructWithShape(MaxPosed, "GeometryObject", pos, shape)
    \/ \E p \in Ptrs, pos \in Positions : SetPosition(p, pos)
    \/ \E p \in Ptrs, rotation \in Rotations : SetRotation(p, rotation)
    \/ \E p \in Ptrs, scale \in Scales : SetScale(p, scale)
    \/ \E p \in Ptrs, offset \in Offsets :
          VAdd(objects[p].m_pos, offset) \in Positions /\ Move(p, offset)
    \/ \E p \in Ptrs, shape \in 0..Len(shapes) : SetShape(p, shape)

SpecTransform == Init /\ [][NextTransform]_vars

(* Construction of every kind of entity, and the registry around it *)
ShapeKinds == {"Object", "GeometryObject", "Bezier3DObject"}

NextIdentity ==
    \/ ConstructDefault(MaxObjects)
    \/ ConstructAt(MaxObjects, VZero)
    \/ \E kind \in ShapeKinds : ConstructWithShape(MaxObjects, kind, VZero, NULL)
    \/ ConstructLight(MaxObjects, VZero, NULL)
    \/ \E p \in Ptrs, name \in UserNames : SetName(p, name)
    \/ \E obj \in AnyPtr : AddObject(obj)
    \/ \E id \in AnyID : RemoveObjectByID(id)
    \/ RemoveAllObjects

SpecIdentity == Init /\ [][NextIdentity]_vars

(* The frame loop's two passes over entities of every kind *)
NextFrame ==
    \/ NewShape
    \/ NewLight(VZero)
    \/ \E kind \in {"GeometryObject", "Bezier3DObject"}, shape \in 0..Len(shapes) :
          ConstructWithShape(MaxObjects, kind, VZero, shape)
    \/ \E light \in 0..Len(lights) : ConstructLight(MaxObjects, Vec(1, 0, 0), light)
    \/ \E p \in Ptrs, active \in BOOLEAN : SetActive(p, active)
    \/ \E p \in Ptrs, visible \in BOOLEAN : SetVisible(p, visible)
    \/ \E obj \in AnyPtr : AddObject(obj)
    \/ UpdateAll(1)
    \/ DrawAll

SpecFrame == Init /\ [][NextFrame]_vars

(* Light holders: construction around a light, moves, flags and draw calls *)
NextLight ==
    \/ NewLight(VZero)
    \/ \E pos \in Positions, light \in 0..Len(lights) : ConstructLight(MaxPosed, pos, light)
    \/ \E p \in Ptrs, pos \in Positions : SetPosition(p, pos)
    \/ \E p \in Ptrs, active \in BOOLEAN : SetActive(p, active)
    \/ \E p \in Ptrs, visible \in BOOLEAN : SetVisible(p, visible)
    \/ \E p \in Ptrs : Draw(p)

SpecLight == Init /\ [][NextLight]_vars

(* Bounding spheres at a few centres, with radii and active flags *)
Centres == {VZero, Vec(3, 0, 0)}
Radii == {1, 2}

NextCollision ==
    \/ \E pos \in Centres : ConstructAt(MaxObjects, pos)
    \/ \E p \in Ptrs, radius \in Radii : SetBoundingSphereRadius(p, radius)
    \/ \E p \in Ptrs, active \in BOOLEAN : SetActive(p, active)
    \/ \E obj \in AnyPtr : AddObject(obj)
    \/ \E p \in Ptrs : CallCheckCollisionsWithObject(p)

SpecCollision == Init /\ [][NextCollision]_vars

(* Picking: rays from the origin against spheres of the default radius *)
Targets == {Vec(3, 0, 0), Vec(5, 0, 0)}
RayDirections == {Vec(1, 0, 0), Vec(-1, 0, 0), Vec(0, 1, 0)}
MaxDistances == {2, 1000}

NextRayCast ==
    \/ \E pos \in Targets : ConstructAt(MaxObjects, pos)
    \/ \E p \in Ptrs, active \in BOOLEAN : SetActive(p, active)
    \/ \E p \in Ptrs, visible \in BOOLEAN : SetVisible(p, visible)
    \/ \E obj \in AnyPtr : AddObject(obj)
    \/ \E dir \in RayDirections, maxDistance \in MaxDistances :
          RayCast(VZero, dir, maxDistance)

SpecRayCast == Init /\ [][NextRayCast]_vars

(* Picking spheres of other radii: entities beside the ray along x *)
PickTargets == {Vec(5, 0, 0), Vec(5, 2, 0), Vec(5, 3, 0)}
PickRadii == {1, 4}
PickDirections == {Vec(1, 0, 0), Vec(-1, 0, 0)}

NextPick ==
    \/ \E pos \in PickTargets : ConstructAt(MaxObjects, pos)
    \/ \E p \in Ptrs, radius \in PickRadii : SetBoundingSphereRadius(p, radius)
    \/ \E obj \in AnyPtr : AddObject(obj)
    \/ \E dir \in PickDirections : RayCast(VZero, dir, 1000)

SpecPick == Init /\ [][NextPick]_vars

(* One Bezier curve shape: control polygons, resolutions and evaluations *)
ControlPoint(i) == Point(Vec(i, i * (3 - i), 0))
\* the control points numbered start .. start + count - 1
Polygon(start, count) == [k \in 1..count |-> ControlPoint(start + k - 1)]
ControlPolygons ==
    {Polygon(start, count) : start \in 0..2, count \in 0..MaxPoints} \ 
        {Polygon(start, count) : start \in 1..2, count \in (MaxPoints - 1)..MaxPoints}
Params == {RZero, Rat(1, 2), ROne}

InitBezier ==
    /\ s_nextID = 0
    /\ objects = <<>>
    /\ shapes = <<BezierCurveNew>>
    /\ lights = <<>>
    /\ m_objects = <<>>
    /\ m_objectTags = EmptyMap
    /\ window = WindowNew
    /\ last = [op |-> "BezierCurve", arg |-> NULL, ret |-> 1]

CurveSetControlPoints(sh, controlPoints) ==
    /\ shapes[sh].kind = "BezierCurve"
    /\ shapes' = [shapes EXCEPT ![sh] = BezierSetControlPoints(@, controlPoints)]
    /\ last' = [op |-> "SetControlPoints", arg |-> sh, ret |-> NULL]
    /\ UNCHANGED <<s_nextID, objects, lights, m_objects, m_objectTags, window>>

CurveSetResolution(sh, samples) ==
    /\ shapes[sh].kind = "BezierCurve"
    /\ shapes' = [shapes EXCEPT ![sh] = BezierSetResolution(@, samples)]
    /\ last' = [op |-> "SetResolution", arg |-> sh, ret |-> NULL]
    /\ UNCHANGED <<s_nextID, objects, lights, m_objects, m_objectTags, window>>

\* one call of evaluateBezier on the curve's control points
CallEvaluateBezier(sh, t) ==
    /\ shapes[sh].kind = "BezierCurve"
    /\ last' = [op |-> "evaluateBezier", arg |-> <<sh, t>>,
                ret |-> evaluateBezier(shapes[sh].m_controlPoints, t)]
    /\ UNCHANGED <<s_nextID, objects, shapes, lights, m_objects, m_objectTags, window>>

NextBezier ==
    \/ \E sh \in 1..Len(shapes), P \in ControlPolygons : CurveSetControlPoints(sh, P)
    \/ \E sh \in 1..Len(shapes), samples \in 1..3 : CurveSetResolution(sh, samples)
    \/ \E sh \in 1..Len(shapes), t \in Params : CallEvaluateBezier(sh, t)

SpecBezier == InitBezier /\ [][NextBezier]_vars

(* One NURBS curve shape and its five mutators *)
NurbsPolygons == {Polygon(0, count) : count \in 0..MaxPoints}
Floats(v) == [k \in 1..Len(v) |-> Rat(v[k], 1)]
WeightVectors == {<<>>, Floats(<<1, 2>>), [k \in 1..MaxPoints |-> Rat(2, 1)]}
KnotVectors ==
    {<<>>, Floats(<<1, 0, 1, 0>>), Floats(<<0, 0, 0, 0>>),
     Floats(<<0, 0, 1, 1, 2, 2>>), Floats(<<0, 1, 2, 3, 4>>)}
\* what a read outside a vector may yield
OutOfRangeValues == {HZero, <<Rat(7, 1), Rat(7, 1), Rat(7, 1), ROne>>}

InitNurbs ==
    /\ s_nextID = 0
    /\ objects = <<>>
    /\ shapes = <<NURBSCurveNew(3)>>
    /\ lights = <<>>
    /\ m_objects = <<>>
    /\ m_objectTags = EmptyMap
    /\ window = WindowNew
    /\ last = [op |-> "NURBSCurve", arg |-> NULL, ret |-> 1]

\* a mutator of the NURBS curve at sh; last.arg keeps the knot vector stored
\* when Rebuild starts
CurveMutation(sh, op, after, storedKnots) ==
    /\ shapes[sh].kind = "NURBSCurve"
    /\ shapes' = [shapes EXCEPT ![sh] = after]
    /\ last' = [op |-> op, arg |-> storedKnots, ret |-> sh]
    /\ UNCHANGED <<s_nextID, objects, lights, m_objects, m_objectTags, window>>

SetDegree(sh, degree) ==
    CurveMutation(sh, "SetDegree", NurbsSetDegree(shapes[sh], degree), shapes[sh].m_knots)

SetControlPoints(sh, controlPoints) ==
    CurveMutation(sh, "SetControlPoints", NurbsSetControlPoints(shapes[sh], controlPoints),
                  shapes[sh].m_knots)

SetWeights(sh, weights) ==
    CurveMutation(sh, "SetWeights", NurbsSetWeights(shapes[sh], weights), shapes[sh].m_knots)

SetKnotVector(sh, knotVector) ==
    CurveMutation(sh, "SetKnotVector", NurbsSetKnotVector(shapes[sh], knotVector),
                  SortFloats(knotVector))

SetResolution(sh, samples) ==
    CurveMutation(sh, "SetResolution", NurbsSetResolution(shapes[sh], samples),
                  shapes[sh].m_knots)

NextNurbs ==
    \/ \E sh \in 1..Len(shapes), degree \in 0..MaxDegree : SetDegree(sh, degree)
    \/ \E sh \in 1..Len(shapes), P \in NurbsPolygons : SetControlPoints(sh, P)
    \/ \E sh \in 1..Len(shapes), W \in WeightVectors : SetWeights(sh, W)
    \/ \E sh \in 1..Len(shapes), K \in KnotVectors : SetKnotVector(sh, K)
    \/ \E sh \in 1..Len(shapes), samples \in {1, 3} : SetResolution(sh, samples)

SpecNurbs == InitNurbs /\ [][NextNurbs]_vars

(* The same curve when SetKnotVector is never called *)
NextGenerated ==
    \/ \E sh \in 1..Len(shapes), degree \in 0..MaxDegree : SetDegree(sh, degree)
    \/ \E sh \in 1..Len(shapes), P \in NurbsPolygons : SetControlPoints(sh, P)
    \/ \E sh \in 1..Len(shapes), W \in WeightVectors : SetWeights(sh, W)
    \/ \E sh \in 1..Len(shapes), samples \in {1, 3} : SetResolution(sh, samples)

SpecGenerated == InitNurbs /\ [][NextGenerated]_vars

(* The curve scene: a window with an empty registry, driven by the curve
   keys and the two mouse buttons *)
MaxControls == 2    \* entities tagged "bezier_control" at one time
MaxSceneID == 7     \* the identity counter up to which input is given
\* the events given to key_callback_bezier; the display keys J and K are
\* left unpressed, they change nothing but the visibility flags
Events == {"none", "degDown", "degUp", "RMB", "LMB"}
CameraPositions == {Vec(1, 2, 0)}
NurbsDegrees == {1, DefaultNurbsDegree}

\* an upper bound of the control points updateCurve finds after the event;
\* insertKnotOnce, and with it the read outside R, runs from three on
ControlCountAfter(event) ==
    Len(GetObjectsByTag("bezier_control")) + (IF event = "RMB" THEN 1 ELSE 0)

InitScene ==
    /\ s_nextID = 0
    /\ objects = <<>>
    /\ shapes = <<>>
    /\ lights = <<>>
    /\ m_objects = <<>>
    /\ m_objectTags = EmptyMap
    /\ \E degree \in NurbsDegrees : window = [WindowNew EXCEPT !.m_nurbsDegree = degree]
    /\ last = [op |-> "Window", arg |-> NULL, ret |-> NULL]

NextScene ==
    \E event \in Events :
        \E placePos \in (IF event = "RMB" THEN CameraPositions ELSE {VZero}),
           hit \in (IF event = "LMB" THEN Range(m_objects) \cup {NULL} ELSE {NULL}),
           outOfRange \in (IF ControlCountAfter(event) >= 3 THEN OutOfRangeValues ELSE {HZero}) :
            /\ s_nextID <= MaxSceneID
            /\ event = "RMB" => Len(GetObjectsByTag("bezier_control")) < MaxControls
            /\ event = "degUp" => window.m_nurbsDegree < MaxControls
            /\ event = "degDown" => window.m_nurbsDegree <= MaxControls
            /\ key_callback_bezier(event, placePos, hit, outOfRange)

SpecScene == InitScene /\ [][NextScene]_vars

----------------------------------------------------------------------------
(* Claims about the registry, checked under SpecRegistry *)

NoDup(seq) == \A i, j \in 1..Len(seq) : i # j => seq[i] # seq[j]
LiveIDs == {GetID(p) : p \in Range(m_objects)}
HasTag(id, tag) == tag \in Range(TagsAt(m_objectTags, id))

\* C1: RemoveObjectByID(id) returns true exactly when an entity with that id
\* is in the list, and after a call that returned true GetObjectByID(id) finds
\* nothing and no GetObjectsByTag(t) holds an entity with that id.
C1_RemovedEntityIsGone ==
    /\ \A id \in AnyID :
         RemoveByIDResult(m_objects, m_objectTags, id).ret <=> (id \in LiveIDs)
    /\ (last.op = "RemoveObjectByID" /\ last.ret = TRUE) =>
         /\ GetObjectByID(last.arg) = NULL
         /\ \A t \in Tags : \A p \in Range(GetObjectsByTag(t)) : GetID(p) # last.arg

\* C2: every identity that is a key of the tag index is the identity of an
\* entity in the entity list.
C2_TagKeysAreLive == DOMAIN m_objectTags \subseteq LiveIDs

C2_Witness ==
    /\ last.op \in {"RemoveObjectByID", "RemoveObjectByName"}
    /\ last.ret = TRUE
    /\ m_objects # <<>>
    /\ DOMAIN m_objectTags # {}

\* C3: for a live entity, tagging twice with the same tag gives the same tag
\* sequence as tagging once, no tag sequence holds a tag twice, and untagging
\* a tag the entity does not have leaves the tag index unchanged.
C3_TagIdempotent ==
    /\ \A id \in DOMAIN m_objectTags : NoDup(m_objectTags[id])
    /\ \A id \in LiveIDs, t \in Tags :
         LET once == TagResult(m_objects, m_objectTags, id, t)
             twice == TagResult(m_objects, once, id, t)
         IN  /\ twice = once
             /\ NoDup(once[id])
             /\ ~HasTag(id, t) => UntagResult(m_objectTags, id, t) = m_objectTags

C3_Witness ==
    /\ last.op = "TagObject"
    /\ last.arg[1] \in LiveIDs
    /\ Len(TagsAt(m_objectTags, last.arg[1])) = 2

\* C4: TagObject, UntagObject, RemoveObjectByID and RemoveObjectByName on an
\* identity or name that matches no entity of the list leave the list and the
\* tag index unchanged, and the two removals return false.
C4_NoMatchIsNoOp ==
    /\ \A id \in AnyID \ LiveIDs :
         /\ \A t \in Tags :
              /\ TagResult(m_objects, m_objectTags, id, t) = m_objectTags
              /\ UntagResult(m_objectTags, id, t) = m_objectTags
         /\ RemoveByIDResult(m_objects, m_objectTags, id)
              = [list |-> m_objects, map |-> m_objectTags, ret |-> FALSE]
    /\ \A name \in AnyName \ {GetName(p) : p \in Range(m_objects)} :
         RemoveByNameResult(m_objects, m_objectTags, name)
              = [list |-> m_objects, map |-> m_objectTags, ret |-> FALSE]

C4_Witness ==
    /\ last.op \in {"TagObject", "UntagObject"}
    /\ last.arg[1] \notin LiveIDs
    /\ m_objects # <<>>
    /\ DOMAIN m_objectTags # {}

\* C5: GetObjectsByTag(t) holds exactly the entities of the list whose tag
\* sequence holds t, each of them once.
C5_ByTagExact ==
    \A t \in Tags :
        LET r == GetObjectsByTag(t) IN
        /\ NoDup(r)
        /\ Range(r) = {p \in Range(m_objects) : HasTag(GetID(p), t)}

C5_Witness ==
    \E t \in Tags, u \in Tags :
        /\ t # u
        /\ Len(GetObjectsByTag(t)) = 1
        /\ \E p \in Range(m_objects) : HasTag(GetID(p), u) /\ ~HasTag(GetID(p), t)

----------------------------------------------------------------------------
(* Claims about one entity, checked under SpecTransform *)

Synced(p) ==
    LET o == objects[p]
        sh == shapes[o.m_shape]
    IN  /\ sh.m_position = o.m_pos
        /\ sh.m_rotation = o.m_rotation
        /\ sh.m_scale = o.m_scale

\* C10: right after SetPosition, SetRotation, SetScale or Move on an entity
\* that has a shape, the shape's position, rotation and scale equal the
\* entity's.
C10_SettersSyncShape ==
    (/\ last.op \in {"SetPosition", "SetRotation", "SetScale", "Move"}
     /\ objects[last.arg].m_shape # NULL)
    => Synced(last.arg)

\* a setter has just brought a shape that had drifted in all three components
\* (the entity was moved, turned and scaled while it had no shape) back in step
C10_Witness ==
    /\ last.op \in {"SetPosition", "SetRotation", "SetScale", "Move"}
    /\ objects[last.arg].m_shape # NULL
    /\ objects[last.arg].m_pos # VZero
    /\ objects[last.arg].m_rotation # VZero
    /\ objects[last.arg].m_scale # VOne

\* C11 (SpecTransform): whenever an entity has a shape attached, directly
\* after construction with a shape and directly after SetShape included, the
\* shape's position, rotation and scale equal the entity's.
C11_NoDrift == \A p \in Ptrs : objects[p].m_shape # NULL => Synced(p)

----------------------------------------------------------------------------
(* Claims about light holders, checked under SpecLight *)

\* C12 (SpecLight): after every call of Draw on a light holder that owns a
\* light, the light's position equals the entity's position, whatever the
\* entity's active and visible flags are.
C12_DrawMovesLight ==
    (/\ last.op = "Draw"
     /\ objects[last.arg].kind = "LightObject"
     /\ objects[last.arg].m_light # NULL)
    => lights[objects[last.arg].m_light] = objects[last.arg].m_pos

----------------------------------------------------------------------------
(* Claims about identities, checked under SpecIdentity *)

\* the heap holds every object ever constructed, in construction order,
\* whether or not it is or was in the registry
C9_Increasing == \A p, q \in Ptrs : p < q => objects[p].m_id < objects[q].m_id

C9_Kept == \A p \in Ptrs : p \in DOMAIN objects' /\ objects'[p].m_id = objects[p].m_id

\* C9: every entity constructed gets an identity strictly greater than that
\* of every entity constructed before it (so identities are unique and never
\* reused, also after a removal from the registry), and no step changes the
\* identity of an entity.
C9_IdentityUnique == [](C9_Increasing) /\ [][C9_Kept]_vars

\* a later entity was constructed while an earlier, renamed one is out of the
\* registry
C9_Witness ==
    /\ last.op = "Construct"
    /\ Len(objects) >= 2
    /\ \E p \in Ptrs :
          /\ p < Len(objects)
          /\ p \notin Range(m_objects)
          /\ objects[p].m_name \in UserNames

----------------------------------------------------------------------------
(* Claims about the frame passes, checked under SpecFrame *)

Count(seq, x) == Cardinality({i \in 1..Len(seq) : seq[i] = x})
ActiveOnly(list) == SelectSeq(list, IsActive)

\* C8: UpdateAll invokes Update exactly once, in list order, on every active
\* entity of the list and on no inactive one; DrawAll draws a shape only for
\* an entity that is active, visible and has that shape.
C8_UpdateOnceDrawGated ==
    /\ last.op = "UpdateAll" =>
         /\ last.ret = ActiveOnly(m_objects)
         /\ \A p \in Range(m_objects) :
              Count(last.ret, p) = (IF IsActive(p) THEN 1 ELSE 0)
    /\ last.op = "DrawAll" =>
         \A i \in 1..Len(last.ret) :
            LET p == last.ret[i][1] IN
            /\ IsActive(p) /\ IsVisible(p)
            /\ objects[p].m_shape # NULL
            /\ objects[p].m_shape = last.ret[i][2]

----------------------------------------------------------------------------
(* Claims about the spatial queries *)

\* the squared distance between the centres of two objects
Dist2(a, b) == Dot(VSub(objects[a].m_pos, objects[b].m_pos),
                   VSub(objects[a].m_pos, objects[b].m_pos))
RadiusSum(a, b) == objects[a].m_boundingSphereRadius + objects[b].m_boundingSphereRadius
Touching(a, b) == RadiusSum(a, b) >= 0 /\ Dist2(a, b) <= RadiusSum(a, b) * RadiusSum(a, b)

\* C7 (SpecCollision): CheckCollisionsWithObject(obj) returns exactly the
\* entities of the list that are active, have another identity than obj and
\* whose centre is at most the sum of the two radii away from obj's centre,
\* never obj itself; and CheckCollision is symmetric.
C7_CollisionsExact ==
    \A a \in Ptrs :
        /\ Range(CheckCollisionsWithObject(objects[a]))
             = {b \in Range(m_objects) : IsActive(b) /\ GetID(b) # GetID(a) /\ Touching(a, b)}
        /\ a \notin Range(CheckCollisionsWithObject(objects[a]))
        /\ \A b \in Ptrs :
             CheckCollision(objects[a], objects[b]) = CheckCollision(objects[b], objects[a])

\* a call for a listed entity returned another one whose centre is exactly
\* the sum of the radii away, and not the entity itself
C7_Witness ==
    /\ last.op = "CheckCollisionsWithObject"
    /\ last.arg \in Range(m_objects)
    /\ last.arg \notin Range(last.ret)
    /\ \E b \in Range(last.ret) :
          /\ Dist2(last.arg, b) > 0
          /\ Dist2(last.arg, b) = RadiusSum(last.arg, b) * RadiusSum(last.arg, b)

\* the list indices RayCast may return: active, visible, hit at a distance
\* strictly between 0 and maxDistance
HitDistance(p, origin, dir) == RayHit(objects[p], origin, dir).distance
Candidates(list, origin, dir, maxDistance) ==
    {i \in 1..Len(list) :
        /\ IsActive(list[i]) /\ IsVisible(list[i])
        /\ RayHit(objects[list[i]], origin, dir).hit
        /\ 0 < HitDistance(list[i], origin, dir)
        /\ HitDistance(list[i], origin, dir) < maxDistance}

Reorderings(list) ==
    {[i \in 1..Len(list) |-> list[f[i]]] : f \in Permutations(1..Len(list))}

\* C6 (SpecRayCast): RayCast returns no entity exactly when no active and
\* visible entity is hit at a distance d with 0 < d < maxDistance; otherwise
\* it returns such an entity of minimal distance, the earliest in the list
\* among those of minimal distance, and the same entity for every order of
\* the list when only one entity has the minimal distance.
C6_RayCastNearest ==
    \A dir \in RayDirections, maxDistance \in MaxDistances :
        LET cand == Candidates(m_objects, VZero, dir, maxDistance)
            D(i) == HitDistance(m_objects[i], VZero, dir)
            nearest == {i \in cand : \A j \in cand : D(i) <= D(j)}
            r == RayCastOver(m_objects, VZero, dir, maxDistance)
        IN  /\ (r = NULL) <=> (cand = {})
            /\ cand # {} =>
                 /\ \E i \in nearest : m_objects[i] = r /\ \A j \in nearest : i <= j
                 /\ Cardinality({m_objects[i] : i \in nearest}) = 1 =>
                      \A other \in Reorderings(m_objects) :
                         RayCastOver(other, VZero, dir, maxDistance) = r

\* a cast returned the first of two different entities at the same minimal
\* distance
C6_Witness ==
    /\ last.op = "RayCast"
    /\ last.ret # NULL
    /\ \E i, j \in Candidates(m_objects, last.arg[1], last.arg[2], last.arg[3]) :
          /\ i < j
          /\ m_objects[i] = last.ret
          /\ m_objects[j] # last.ret
          /\ HitDistance(m_objects[i], last.arg[1], last.arg[2])
               = HitDistance(m_objects[j], last.arg[1], last.arg[2])

----------------------------------------------------------------------------
(* Claims about the Bezier evaluator, checked under SpecBezier *)

\* C13 (SpecBezier): for every control-point sequence of at least two points
\* evaluateBezier returns the first point at t = 0 and the last point at
\* t = 1; for the empty sequence it returns the zero vector and for a single
\* point that point, at every t.
C13_BezierEndpoints ==
    \A sh \in 1..Len(shapes) :
        LET P == shapes[sh].m_controlPoints IN
        /\ Len(P) >= 2 =>
             /\ evaluateBezier(P, RZero) = P[1]
             /\ evaluateBezier(P, ROne) = P[Len(P)]
        /\ P = <<>> => \A t \in Params : evaluateBezier(P, t) = PZero
        /\ Len(P) = 1 => \A t \in Params : evaluateBezier(P, t) = P[1]

\* an evaluation at t = 1 of three or more points returned the last one
C13_Witness ==
    /\ last.op = "evaluateBezier"
    /\ last.arg[2] = ROne
    /\ LET P == shapes[last.arg[1]].m_controlPoints IN
       /\ Len(P) >= 3
       /\ P[1] # P[Len(P)]
       /\ last.ret = P[Len(P)]

----------------------------------------------------------------------------
(* Claims about the NURBS curve, checked under SpecNurbs *)

Curves == {sh \in 1..Len(shapes) : shapes[sh].kind = "NURBSCurve"}
PointCount(c) == Len(c.m_controlPoints)
Needed(c) == PointCount(c) + c.m_degree + 1

\* C14 (SpecNurbs): the knot vector synthesized for n control points and
\* degree p, n >= p + 1, has length n + p + 1, its first p + 1 entries are 0,
\* its last p + 1 entries are 1, the entry at each index i with p < i < n is
\* (i - p) / (n - p), and it is non-decreasing.
C14_SynthesizedKnots ==
    \A sh \in Curves :
        LET c == shapes[sh]
            n == PointCount(c)
            p == c.m_degree
            K == ensureKnotVector([c EXCEPT !.m_knots = <<>>]).m_knots
        IN  n >= p + 1 =>
              /\ Len(K) = n + p + 1
              /\ \A i \in 0..p : At(K, i) = RZero
              /\ \A i \in n..(n + p) : At(K, i) = ROne
              /\ \A i \in (p + 1)..(n - 1) : At(K, i) = Rat(i - p, n - p)
              /\ \A i \in 0..(n + p - 1) : RLeq(At(K, i), At(K, i + 1))
              /\ KnotsOrGenerated([c EXCEPT !.m_knots = <<>>]) = K

\* a mutator found a knot vector of the wrong length and left a synthesized
\* one that has interior entries
C14_Witness ==
    /\ last.op \in {"SetDegree", "SetControlPoints"}
    /\ LET c == shapes[last.ret] IN
       /\ PointCount(c) >= c.m_degree + 2
       /\ Len(last.arg) # Needed(c)
       /\ c.m_knots = OpenUniform(PointCount(c), c.m_degree)

\* the samples of a rebuilt curve are evaluated on the stored knot vector,
\* whose length is control-point count + degree + 1
C15_Lengths ==
    \A sh \in Curves :
        LET c == shapes[sh] IN
        c.m_vertices # <<>> =>
            /\ Len(c.m_knots) = Needed(c)
            /\ KnotsOrGenerated(c) = c.m_knots

\* a mutator that finds a stored knot vector of another length leaves the
\* synthesized open-uniform vector (last.arg is the vector stored when
\* Rebuild starts)
C15_Replaced ==
    (/\ last'.op \in {"SetDegree", "SetControlPoints", "SetWeights", "SetKnotVector",
                      "SetResolution"}
     /\ canEvaluate(shapes'[last'.ret])
     /\ Len(last'.arg) # Needed(shapes'[last'.ret]))
    => shapes'[last'.ret].m_knots =
          OpenUniform(PointCount(shapes'[last'.ret]), shapes'[last'.ret].m_degree)

\* C15 (SpecNurbs): after any sequence of SetDegree, SetControlPoints,
\* SetWeights, SetKnotVector and SetResolution, every evaluation made by
\* Rebuild uses a knot vector of length control-point count + degree + 1: a
\* stored knot vector of another length is replaced by the synthesized
\* open-uniform vector before the first sample is evaluated.
C15_KnotLength == [](C15_Lengths) /\ [][C15_Replaced]_vars

\* SetKnotVector stored a vector of the wrong length and the rebuild sampled
\* the curve on the synthesized one
C15_Witness ==
    /\ last.op = "SetKnotVector"
    /\ last.arg # <<>>
    /\ Len(last.arg) # Needed(shapes[last.ret])
    /\ shapes[last.ret].m_vertices # <<>>
    /\ shapes[last.ret].m_knots # last.arg

\* the index ranges evaluatePoint stays in for parameter u: the span, the
\* knots basisFunctions reads and the control points it combines
EvaluationInRange(c, u) ==
    LET n == PointCount(c) - 1
        span == findSpan(c.m_degree, n, u, c.m_knots)
    IN  /\ span >= c.m_degree /\ span <= n
        /\ span + 1 - c.m_degree >= 0
        /\ span + c.m_degree <= Len(c.m_knots) - 1

\* C16 (SpecNurbs): after every mutation of a NURBS curve the vertex set is
\* empty when there are fewer than degree + 1 control points or when
\* knots[lastValid] - knots[degree] is below epsilon, and otherwise holds
\* exactly resolution + 1 vertices; every sample is evaluated inside the
\* knot vector and the control points (no mutation ends in an error).
C16_VertexCount ==
    \A sh \in Curves :
        LET c == shapes[sh]
            flat == RLess(RSub(At(c.m_knots, Len(c.m_knots) - c.m_degree - 1),
                               At(c.m_knots, c.m_degree)), kEpsilon)
        IN  /\ c.m_samples >= 2
            /\ ~canEvaluate(c) => c.m_vertices = <<>>
            /\ (canEvaluate(c) /\ flat) => c.m_vertices = <<>>
            /\ (canEvaluate(c) /\ ~flat) =>
                 /\ Len(c.m_vertices) = c.m_samples + 1
                 /\ \A k \in 1..Len(c.m_vertices) : EvaluationInRange(c, c.m_vertices[k])

\* a knot vector of the right length but of zero span emptied the vertex set
C16_Witness ==
    /\ last.op = "SetKnotVector"
    /\ LET c == shapes[last.ret] IN
       /\ canEvaluate(c)
       /\ Len(c.m_knots) = Needed(c)
       /\ At(c.m_knots, c.m_degree) = At(c.m_knots, Len(c.m_knots) - c.m_degree - 1)
       /\ c.m_vertices = <<>>

----------------------------------------------------------------------------
(* Claims about the Bezier decomposition, checked under SpecNurbs *)

\* the non-degenerate knot spans of the domain [knots[p], knots[n]] of an
\* evaluable curve, as the indices i of their left knots, in increasing order
DomainSpans(c) ==
    LET knots == KnotsOrGenerated(c) IN
    Ascending({i \in (c.m_degree)..(PointCount(c) - 1) :
                  RLess(kEpsilon, RSub(At(knots, i + 1), At(knots, i)))})

\* C18 (SpecNurbs): for an evaluable curve ToBezierControlPolygons returns
\* one group per non-degenerate knot span of the domain, every group has
\* degree + 1 points, and the groups follow each other in parameter order:
\* the first starts at the first control point and each later one starts
\* with the point its predecessor ends with; for a curve that cannot be
\* evaluated the result is empty.
C18_PiecesPerSpan ==
    \A sh \in Curves, outOfRange \in OutOfRangeValues :
        LET c == shapes[sh]
            pieces == ToBezierControlPolygons(c, outOfRange)
        IN  /\ ~canEvaluate(c) => pieces = <<>>
            /\ canEvaluate(c) =>
                 /\ Len(pieces) = Len(DomainSpans(c))
                 /\ \A s \in 1..Len(pieces) : Len(pieces[s]) = c.m_degree + 1
                 /\ pieces # <<>> => pieces[1][1] = c.m_controlPoints[1]
                 /\ \A s \in 1..(Len(pieces) - 1) :
                       pieces[s][c.m_degree + 1] = pieces[s + 1][1]

\* a curve with an interior knot was decomposed into two groups
C18_Witness ==
    \E sh \in Curves :
        /\ PointCount(shapes[sh]) >= shapes[sh].m_degree + 2
        /\ shapes[sh].m_degree >= 2
        /\ Len(ToBezierControlPolygons(shapes[sh], HZero)) = 2

UniformWeights(c) == \A i, j \in 1..Len(c.m_weights) : c.m_weights[i] = c.m_weights[j]

\* C19 (SpecNurbs): with uniform weights, an open-uniform knot vector and
\* exactly degree + 1 control points, ToBezierControlPolygons inserts no knot
\* and returns one piece, the control points in their order.
C19_SinglePiece ==
    \A sh \in Curves, outOfRange \in OutOfRangeValues :
        LET c == shapes[sh]
            p == c.m_degree
        IN  (/\ PointCount(c) = p + 1
             /\ UniformWeights(c)
             /\ c.m_knots = OpenUniform(PointCount(c), p))
            => /\ RaiseMultiplicity(p + 1, p, KnotsOrGenerated(c), Homogeneous(c), outOfRange).knots
                    = c.m_knots
               /\ ToBezierControlPolygons(c, outOfRange) = <<c.m_controlPoints>>

\* the scenario of the specification with weights other than 1: four control
\* points, degree 3, every weight 2
C19_Witness ==
    \E sh \in Curves :
        LET c == shapes[sh] IN
        /\ c.m_degree = 3
        /\ PointCount(c) = 4
        /\ c.m_knots = OpenUniform(4, 3)
        /\ \A i \in 1..4 : c.m_weights[i] = Rat(2, 1)
        /\ ToBezierControlPolygons(c, HZero) = <<c.m_controlPoints>>

\* C20 (SpecNurbs): for an evaluable curve and the parameter u in the middle
\* of any non-degenerate span [a, b] of its domain, evaluatePoint(u) equals
\* evaluateBezier of the decomposed piece of that span at (u - a) / (b - a),
\* also when the curve has interior knots.
C20_RoundTrip ==
    \A sh \in Curves, outOfRange \in OutOfRangeValues :
        LET c == shapes[sh]
            knots == KnotsOrGenerated(c)
            spans == DomainSpans(c)
            pieces == ToBezierControlPolygons(c, outOfRange)
        IN  canEvaluate(c) =>
              \A s \in 1..Len(spans) :
                 LET a == At(knots, spans[s])
                     b == At(knots, spans[s] + 1)
                     u == RMul(RAdd(a, b), Rat(1, 2))
                 IN  evaluatePoint(c, u)
                       = evaluateBezier(pieces[s], RDiv(RSub(u, a), RSub(b, a)))

----------------------------------------------------------------------------
(* Claims about the curve scene, checked under SpecScene *)

CurveNames == {"bezier_curve", "nurbs_curve", "bspline_curve", "control_lines"}
\* the shape of the listed entity of that name, NULL when there is none
NamedShape(name) ==
    LET obj == GetObjectByName(name) IN
    IF obj = NULL THEN NULL ELSE objects[obj].m_shape
ControlCount == Len(GetObjectsByTag("bezier_control"))

\* C17 (SpecScene): after every call of key_callback_bezier, hence of
\* updateCurve, that ran with fewer than two entities tagged
\* "bezier_control", the shapes of bezier_curve, nurbs_curve, bspline_curve
\* and control_lines have no vertices and no entity is tagged
\* "nurbs_bezier_piece".
C17_EmptyCurves ==
    (last.op = "key_callback_bezier" /\ ControlCount < 2) =>
        /\ \A name \in CurveNames :
              /\ NamedShape(name) # NULL
              /\ shapes[NamedShape(name)].m_vertices = <<>>
        /\ GetObjectsByTag("nurbs_bezier_piece") = <<>>
        /\ \A id \in DOMAIN m_objectTags :
              FindIf(m_objectTags[id], {"nurbs_bezier_piece"}) = 0

\* the left button has just removed one of two control points, and with
\* it the Bezier piece the registry listed
C17_Witness ==
    /\ last.op = "key_callback_bezier"
    /\ last.arg = "LMB"
    /\ last.ret.controls = 2
    /\ last.ret.pieces > 0
    /\ ControlCount = 1
    /\ shapes[NamedShape("nurbs_curve")].m_vertices = <<>>

\* the target degree held to [1, max(1, n - 1)], written out
ClampedDegree(target, n) ==
    IF n - 1 <= 1 THEN 1
    ELSE IF target < 1 THEN 1 ELSE IF target > n - 1 THEN n - 1 ELSE target

C22_TargetInRange ==
    (last.op = "key_callback_bezier" /\ ControlCount >= 2) =>
        /\ 1 <= window.m_nurbsDegree
        /\ window.m_nurbsDegree <= ControlCount - 1

\* the pieces updateBezierPieces was given by the last updateCurve: the
\* decomposition of the shape of nurbs_curve
PiecesGiven(outOfRange) ==
    IF NamedShape("nurbs_curve") = NULL THEN <<>>
    ELSE ToBezierControlPolygons(shapes[NamedShape("nurbs_curve")], outOfRange)
PieceCount == Len(PiecesGiven(HZero))
PieceEntities == Range(GetObjectsByTag("nurbs_bezier_piece"))

\* the tagged entities are one per index below k, named by their index and
\* holding the control points of their piece
C23_OnePerIndex ==
    last.op = "key_callback_bezier" =>
        \E outOfRange \in OutOfRangeValues :
            /\ Len(GetObjectsByTag("nurbs_bezier_piece")) = Len(PiecesGiven(outOfRange))
            /\ \A id \in DOMAIN m_objectTags :
                  FindIf(m_objectTags[id], {"nurbs_bezier_piece"}) # 0
                      => \E p \in PieceEntities : objects[p].m_id = id
            /\ \A i \in 1..Len(PiecesGiven(outOfRange)) :
                  /\ Cardinality({p \in PieceEntities : objects[p].m_name = PieceName(i)}) = 1
                  /\ Cardinality({p \in Range(m_objects) : objects[p].m_name = PieceName(i)}) = 1
                  /\ \A p \in PieceEntities :
                        objects[p].m_name = PieceName(i) =>
                            /\ shapes[objects[p].m_shape].kind = "BezierCurve"
                            /\ shapes[objects[p].m_shape].m_controlPoints
                                  = PiecesGiven(outOfRange)[i]

\* a piece entity the call found (last.ret.found) with an index below k is
\* the same entity afterwards, one with an index of k or more is no longer
\* listed
C23_KeptOrRemoved ==
    last.op = "key_callback_bezier" =>
        \A f \in Range(last.ret.found) :
            IF StoiSuffix(f[1]) < PieceCount
            THEN \E q \in PieceEntities : objects[q].m_id = f[2] /\ objects[q].m_name = f[1]
            ELSE \A q \in Range(m_objects) : objects[q].m_id # f[2]

\* C23 (SpecScene): after updateBezierPieces(pieces) with k = |pieces|,
\* whatever the earlier calls left, the entities tagged "nurbs_bezier_piece"
\* are exactly k entities named nurbs_bezier_piece_0 ...
\* nurbs_bezier_piece_(k-1), one per index, holding the control points of
\* their piece; a piece entity that existed with an index below k is the
\* same entity afterwards, and every piece entity with an index of k or
\* more has been removed.
C23_PiecesMatch == C23_OnePerIndex /\ C23_KeptOrRemoved

\* a call that found the piece entity of an earlier call and kept it, with
\* the control points of the piece
C23_Witness ==
    /\ last.op = "key_callback_bezier"
    /\ last.ret.pieces = 1
    /\ PieceCount = 1
    /\ \E p \in PieceEntities :
          /\ objects[p].m_name = "nurbs_bezier_piece_0"
          /\ <<objects[p].m_name, objects[p].m_id>> \in Range(last.ret.found)
          /\ Len(shapes[objects[p].m_shape].m_controlPoints) = 2

----------------------------------------------------------------------------
(* Claims about findSpan, checked under SpecNurbs on the knot vectors its
   curves hold *)

\* the parameters findSpan is asked for: below, on and between the knots of
\* the model's vectors, and above them
SpanParams == {Rat(k, 4) : k \in -4..20}

\* a knot vector findSpan may be given for last index n and degree p
SpanKnots(c) ==
    /\ PointCount(c) >= 1
    /\ Len(c.m_knots) = Needed(c)
    /\ \A i \in 0..(Len(c.m_knots) - 2) : RLeq(At(c.m_knots, i), At(c.m_knots, i + 1))
    /\ RLess(At(c.m_knots, c.m_degree), At(c.m_knots, PointCount(c)))

\* C25 (SpecNurbs): for a non-decreasing knot vector of length n + p + 2
\* with knots[p] < knots[n+1] and any parameter u, findSpan(n, u, knots)
\* returns k with p <= k <= n; knots[k] <= u < knots[k+1] when u lies
\* strictly inside (knots[p], knots[n+1]), k = p when u <= knots[p], and
\* k = n when u >= knots[n+1].
C25_FindSpan ==
    \A sh \in Curves :
        LET c == shapes[sh]
            n == PointCount(c) - 1
            p == c.m_degree
        IN  SpanKnots(c) =>
              \A u \in SpanParams :
                  LET k == findSpan(p, n, u, c.m_knots) IN
                  /\ p <= k /\ k <= n
                  /\ (RLess(At(c.m_knots, p), u) /\ RLess(u, At(c.m_knots, n + 1)))
                        => (RLeq(At(c.m_knots, k), u) /\ RLess(u, At(c.m_knots, k + 1)))
                  /\ RLeq(u, At(c.m_knots, p)) => k = p
                  /\ RLeq(At(c.m_knots, n + 1), u) => k = n

\* a stored vector with repeated interior knots, searched past its first
\* probe: 3/2 lies in the last span of 0, 0, 1, 1, 2, 2 at degree 1
C25_Witness ==
    \E sh \in Curves :
        /\ SpanKnots(shapes[sh])
        /\ shapes[sh].m_knots = Floats(<<0, 0, 1, 1, 2, 2>>)
        /\ shapes[sh].m_degree = 1
        /\ findSpan(1, 3, Rat(3, 2), shapes[sh].m_knots) = 3
        /\ findSpan(1, 3, Rat(1, 2), shapes[sh].m_knots) = 1
        /\ findSpan(1, 3, Rat(5, 1), shapes[sh].m_knots) = 3

----------------------------------------------------------------------------
(* Claims about picking with a set radius, checked under SpecPick *)

\* the ray from origin along the unit vector dir comes within the bounding
\* radius of the entity's position, ahead of the origin
PassesWithin(o, origin, dir) ==
    LET diff == VSub(o.m_pos, origin)
        t0 == Dot(diff, dir)
        dSquared == Dot(diff, diff) - t0 * t0
        r == o.m_boundingSphereRadius
    IN  /\ dSquared <= r * r
        /\ t0 > 0 \/ Dot(diff, diff) < r * r

\* C26 (SpecPick): for every radius set through SetBoundingSphereRadius,
\* RayCast over an active and visible entity alone returns it exactly when
\* the ray passes within that radius of the entity's position.
C26_SphereOfRadius ==
    \A p \in Range(m_objects), dir \in PickDirections :
        (IsActive(p) /\ IsVisible(p)) =>
            ((RayCastOver(<<p>>, VZero, dir, 1000) = p)
                <=> PassesWithin(objects[p], VZero, dir))

----------------------------------------------------------------------------
(* Claims about the calls of insertKnotOnce, checked under SpecNurbs *)

\* the multiplicity s each of the calls of one insertion loop finds
RECURSIVE InsertMultiplicities(_, _, _, _, _)
InsertMultiplicities(times, degree, u, knots, homoPts) ==
    IF times <= 0 THEN <<>>
    ELSE LET r == insertKnotOnce(degree, u, knots, homoPts, HZero)
         IN  <<knotMultiplicity(u, knots)>>
                 \o InsertMultiplicities(times - 1, degree, u, r.knots, r.homoPts)

\* the multiplicity s every call of insertKnotOnce finds during the loop of
\* ToBezierControlPolygons from index idx on, in the order of the calls
RECURSIVE CallMultiplicities(_, _, _, _)
CallMultiplicities(idx, degree, knots, homoPts) ==
    IF idx >= Len(knots) - degree - 1 THEN <<>>
    ELSE LET u == At(knots, idx)
             mult == knotMultiplicity(u, knots)
             neededInsert == (degree + 1) - mult
         IN  IF neededInsert > 0
             THEN LET r == InsertTimes(neededInsert, degree, u, knots, homoPts, HZero)
                  IN  InsertMultiplicities(neededInsert, degree, u, knots, homoPts)
                          \o CallMultiplicities(idx, degree, r.knots, r.homoPts)
             ELSE CallMultiplicities(idx + mult, degree, knots, homoPts)

\* C27 (SpecNurbs): during ToBezierControlPolygons on an evaluable curve
\* every call of insertKnotOnce finds a multiplicity s of the inserted knot
\* of at most degree - 1, so that R[p - 1 - s] lies inside the blend array.
C27_InsertInRange ==
    \A sh \in Curves :
        LET c == shapes[sh] IN
        canEvaluate(c) =>
            \A s \in Range(CallMultiplicities(c.m_degree + 1, c.m_degree,
                                               KnotsOrGenerated(c), Homogeneous(c))) :
                s <= c.m_degree - 1

----------------------------------------------------------------------------
(* Claims about the generated knot vector, checked under SpecGenerated *)

\* C28 (SpecGenerated): when SetKnotVector is never called, after any
\* sequence of SetDegree, SetControlPoints, SetWeights and SetResolution the
\* stored knot vector of an evaluable curve is the open-uniform vector of
\* its control-point count and degree: degree + 1 zeros first, degree + 1
\* ones last.
C28_GeneratedKnots ==
    \A sh \in Curves :
        LET c == shapes[sh] IN
        canEvaluate(c) =>
            /\ c.m_knots = OpenUniform(PointCount(c), c.m_degree)
            /\ \A i \in 0..c.m_degree : At(c.m_knots, i) = RZero
            /\ \A i \in PointCount(c)..(PointCount(c) + c.m_degree) : At(c.m_knots, i) = ROne

----------------------------------------------------------------------------
(* Claims about repeated entries of the entity list, checked under
   SpecRegistry *)

\* C29 (SpecRegistry): after any sequence of AddObject, RemoveObjectByID,
\* RemoveObjectByName and RemoveAllObjects the entity list holds no two
\* entries with the same identity, so GetObjectCount, the length of the
\* list, is the number of distinct live identities.
C29_NoRepeatedIdentity ==
    /\ \A i, j \in 1..Len(m_objects) :
          GetID(m_objects[i]) = GetID(m_objects[j]) => i = j
    /\ Len(m_objects) = Cardinality({GetID(m_objects[i]) : i \in 1..Len(m_objects)})

----------------------------------------------------------------------------
(* Window::Run: the frame loop, one step per call of the loop body.  A run  *)
(* state r holds the world, the light heap and the window at one point of   *)
(* a step.                                                                  *)

MaxRunID == 7       \* the identity counter up to which the buttons create entities
MaxReach == 2       \* the x coordinates 0..MaxReach a scrolled target may take

\* the members of a new Window that the mouse handlers use, with the light
\* list as Run's AddLightSource(lux) leaves it
RunWindow ==
    [m_nurbsDegree |-> DefaultNurbsDegree, m_curveDisplay |-> "BEZIER", m_currentDegree |-> 0,
     m_is_controlling_bezier |-> FALSE, m_now_controlling_target |-> NULL,
     m_controlling_light |-> NULL, m_light_oid |-> 0, m_light_list |-> <<1>>]

\* the order of the calls in one pass of the loop body: the handlers of
\* key_callback_bezier, then lux->SetPosition, UpdateAll, DrawAll and
\* glfwPollEvents, after which the next pass starts
Following_DrawFirst(op) ==
    CASE op = "PressRight" -> "PressLeft"
      [] op = "PressLeft" -> "PressMiddle"
      [] op = "PressMiddle" -> "updateCurve"
      [] op = "updateCurve" -> "SetPosition"
      [] op = "SetPosition" -> "DrawAll"
      [] op = "DrawAll" -> "UpdateAll"
      [] op = "UpdateAll" -> "PollEvents"
      [] OTHER -> "PressRight"

Following(op) ==
    CASE op = "PressRight" -> "PressLeft"
      [] op = "PressLeft" -> "PressMiddle"
      [] op = "PressMiddle" -> "updateCurve"
      [] op = "updateCurve" -> "SetPosition"
      [] op = "SetPosition" -> "UpdateAll"
      [] op = "UpdateAll" -> "DrawAll"
      [] op = "DrawAll" -> "PollEvents"
      [] OTHER -> "PressRight"

RunState == [world |-> World, lights |-> lights, window |-> window]

\* The end of the shared_ptr lifetimes: an entity lives while the registry
\* lists it or the window holds it.  The heap keeps the listed entities in
\* the order of the list, then the held ones.
Held(w, win) ==
    SelectSeq(<<win.m_now_controlling_target, win.m_controlling_light>>,
              LAMBDA p : p # NULL /\ p \notin Range(w.m_objects))
Kept(w, win) == w.m_objects \o Held(w, win)
ShapeRefs(w, keep) ==
    SelectSeq([i \in 1..Len(keep) |-> w.objects[keep[i]].m_shape], LAMBDA sh : sh # NULL)
IndexOf(seq, x) == IF x = NULL THEN NULL ELSE CHOOSE i \in 1..Len(seq) : seq[i] = x

SweepTo(r, keep, shapeRefs) ==
    [r EXCEPT
       !.world.objects = [i \in 1..Len(keep) |->
                             [r.world.objects[keep[i]] EXCEPT !.m_shape = IndexOf(shapeRefs, @)]],
       !.world.shapes = [k \in 1..Len(shapeRefs) |-> r.world.shapes[shapeRefs[k]]],
       !.world.m_objects = [i \in 1..Len(r.world.m_objects) |-> i],
       !.window.m_now_controlling_target = IndexOf(keep, @),
       !.window.m_controlling_light = IndexOf(keep, @)]

SweepKept(r, keep) == SweepTo(r, keep, ShapeRefs(r.world, keep))
Sweep(r) == SweepKept(r, Kept(r.world, r.window))

\* updateCurve on a run state: the curve entities and m_currentDegree
RunUpdateCurve(r, outOfRange) ==
    Sweep([r EXCEPT !.world = updateCurve(@, r.window, outOfRange),
                    !.window.m_currentDegree = DegreeUsed(r.world, r.window.m_nurbsDegree)])

\* key_callback_bezier, the right button (lines 522-537)
RunPressRight(r, pressed, placePos, outOfRange) ==
    IF pressed
    THEN RunUpdateCurve([r EXCEPT !.world = CreateControlPoint(@, placePos)], outOfRange)
    ELSE r

\* key_callback_bezier, the left button (lines 540-555)
RunPressLeft(r, pressed, hit) ==
    IF pressed THEN Sweep([r EXCEPT !.world = PressLeft(@, "LMB", hit)]) ELSE r

\* the middle button while nothing is controlled: the hit control point
\* becomes the target and a LightObject with a light of its own is listed
\* at its position
ControlOn(r, hit) ==
    LET w == r.world
        pos == w.objects[hit].m_pos
        holder == [NewObject("LightObject", pos, NULL, 2) EXCEPT
                      !.m_id = w.s_nextID,
                      !.m_name = TypePrefix("LightObject") \o to_string(w.s_nextID)]
    IN  [world |-> [w EXCEPT !.s_nextID = NextID(@),
                             !.objects = Append(@, holder),
                             !.m_objects = AddResult(@, Len(w.objects) + 1)],
         lights |-> <<r.lights[1], pos>>,
         window |-> [r.window EXCEPT !.m_is_controlling_bezier = TRUE,
                                     !.m_now_controlling_target = hit,
                                     !.m_controlling_light = Len(w.objects) + 1,
                                     !.m_light_list = Append(@, 2),
                                     !.m_light_oid = w.s_nextID]]

\* std::find and erase of RemoveLightSource
RemoveLightSource(list, light) ==
    IF FindIf(list, {light}) # 0 THEN Erase(list, FindIf(list, {light})) ELSE list

\* the middle button while a target is controlled
ControlOff(r) ==
    [r EXCEPT !.window.m_is_controlling_bezier = FALSE,
              !.window.m_now_controlling_target = NULL,
              !.window.m_light_list =
                  RemoveLightSource(@, r.world.objects[r.window.m_controlling_light].m_light),
              !.world = SceneRemoveObjectByID(@, r.window.m_light_oid),
              !.window.m_light_oid = 0]

\* key_callback_bezier, the middle button (lines 558-597)
RunPressMiddle(r, pressed, hit) ==
    IF ~pressed THEN r
    ELSE IF ~r.window.m_is_controlling_bezier
         THEN IF IsControl(r.world, hit) THEN Sweep(ControlOn(r, hit)) ELSE r
         ELSE Sweep(ControlOff(r))

\* delta /= len for the difference of the target and the camera
Normalized(delta) == [i \in 1..3 |-> delta[i] \div Length(delta)]
VNeg(v) == [i \in 1..3 |-> 0 - v[i]]

\* Object::Move on the heap of a world: SetPosition and SyncShapeTransform
MoveIn(w, p, offset) ==
    LET moved == [w.objects[p] EXCEPT !.m_pos = VAdd(@, offset)] IN
    [w EXCEPT !.objects[p] = moved,
              !.shapes = IF moved.m_shape = NULL THEN @
                         ELSE [@ EXCEPT ![moved.m_shape].m_position = moved.m_pos,
                                        ![moved.m_shape].m_rotation = moved.m_rotation,
                                        ![moved.m_shape].m_scale = moved.m_scale]]

\* the three Move calls of onScroll; Light::Move subtracts its argument
ScrollBy(r, offset) ==
    [r EXCEPT !.world = MoveIn(MoveIn(@, r.window.m_now_controlling_target, offset),
                               r.window.m_controlling_light, offset),
              !.lights[r.world.objects[r.window.m_controlling_light].m_light] = VSub(@, offset)]

\* Window::onScroll with the camera at cameraPos
onScroll(r, cameraPos, y_offset) ==
    IF r.window.m_now_controlling_target = NULL \/ y_offset = 0 THEN r
    ELSE \* y_offset < 0 moves by -delta, y_offset > 0 by delta
         ScrollBy(r, IF y_offset < 0
                     THEN VNeg(Normalized(VSub(r.world.objects[r.window.m_now_controlling_target].m_pos, cameraPos)))
                     ELSE Normalized(VSub(r.world.objects[r.window.m_now_controlling_target].m_pos, cameraPos)))

\* the identities of the listed entities tagged "bezier_control"
ControlIDs ==
    {objects[GetObjectsByTag("bezier_control")[k]].m_id :
        k \in 1..Len(GetObjectsByTag("bezier_control"))}
ControlIDsOf(w) ==
    {w.objects[p].m_id : p \in Range(SceneObjectsByTag(w, "bezier_control"))}

\* one step of the loop body: the run state it leaves, and in last.ret the
\* calls of the current pass so far, each with whether it let updateCurve
\* read the tag index and with the control points listed after it
RunStep(op, arg, after, read) ==
    /\ Following(last.op) = op
    /\ s_nextID' = after.world.s_nextID
    /\ objects' = after.world.objects
    /\ shapes' = after.world.shapes
    /\ m_objects' = after.world.m_objects
    /\ m_objectTags' = after.world.m_objectTags
    /\ lights' = after.lights
    /\ window' = after.window
    /\ last' = [op |-> op, arg |-> arg,
                ret |-> Append(IF op = "PressRight" THEN <<>> ELSE last.ret,
                               [op |-> op, read |-> read,
                                controls |-> ControlIDsOf(after.world)])]

\* the outOfRange values a call may meet: insertKnotOnce runs from three
\* control points on
OutOfRangeFor(count) == IF count >= 3 THEN OutOfRangeValues ELSE {HZero}

StepRight ==
    \E pressed \in BOOLEAN :
      \E placePos \in (IF pressed THEN CameraPositions ELSE {VZero}),
         outOfRange \in (IF pressed THEN OutOfRangeFor(Cardinality(ControlIDs) + 1) ELSE {HZero}) :
        /\ pressed => Cardinality(ControlIDs) < MaxControls /\ s_nextID <= MaxRunID
        /\ RunStep("PressRight", pressed,
                   RunPressRight(RunState, pressed, placePos, outOfRange), pressed)

StepLeft ==
    \E pressed \in BOOLEAN :
      \E hit \in (IF pressed THEN Range(m_objects) \cup {NULL} ELSE {NULL}) :
        RunStep("PressLeft", pressed, RunPressLeft(RunState, pressed, hit), FALSE)

StepMiddle ==
    \E pressed \in BOOLEAN :
      \E hit \in (IF pressed /\ ~window.m_is_controlling_bezier
                  THEN Range(m_objects) \cup {NULL} ELSE {NULL}) :
        /\ pressed /\ ~window.m_is_controlling_bezier => s_nextID <= MaxRunID
        /\ RunStep("PressMiddle", pressed, RunPressMiddle(RunState, pressed, hit), FALSE)

StepUpdateCurve ==
    \E outOfRange \in OutOfRangeFor(Cardinality(ControlIDs)) :
        RunStep("updateCurve", NULL, RunUpdateCurve(RunState, outOfRange), TRUE)

\* lux->SetPosition(4 cos(time), 0, 4 sin(time))
LuxPositions == {Vec(4, 0, 0), Vec(0, 0, 4)}
StepSetPosition ==
    \E pos \in LuxPositions :
        RunStep("SetPosition", pos, [RunState EXCEPT !.lights[1] = pos], FALSE)

StepUpdateAll ==
    RunStep("UpdateAll", 1,
            [RunState EXCEPT !.world.objects = UpdateLoop(1, 1, objects, <<>>).heap], FALSE)

StepDrawAll ==
    RunStep("DrawAll", NULL,
            [RunState EXCEPT !.lights = DrawLoop(1, lights, <<>>).lightHeap], FALSE)

\* glfwPollEvents: the end of the pass; a scroll event calls onScroll.  The
\* camera stays on the line through the control points along the x axis.
ScrollCameras == {Vec(-3, 2, 0)}
StepPollEvents ==
    \E y_offset \in {-1, 0, 1}, cameraPos \in ScrollCameras :
      \E after \in {onScroll(RunState, cameraPos, y_offset)} :
        /\ \A p \in 1..Len(after.world.objects) :
              after.world.objects[p].m_pos[1] \in -4..MaxReach
        /\ window.m_now_controlling_target # NULL =>
              after.world.objects[window.m_now_controlling_target].m_pos[1] \in 0..MaxReach
        /\ RunStep("PollEvents", y_offset, after, FALSE)

\* the state in which Run enters its loop: lux and its holder lObj listed
InitRun ==
    /\ s_nextID = 1
    /\ objects = <<[NewObject("LightObject", Vec(-4, 0, 0), NULL, 1) EXCEPT
                       !.m_id = 0, !.m_name = "LightObject_0"]>>
    /\ shapes = <<>>
    /\ lights = <<Vec(-4, 0, 0)>>
    /\ m_objects = <<1>>
    /\ m_objectTags = EmptyMap
    /\ window = RunWindow
    /\ last = [op |-> "Run", arg |-> NULL, ret |-> <<>>]

NextRun ==
    \/ StepRight
    \/ StepLeft
    \/ StepMiddle
    \/ StepUpdateCurve
    \/ StepSetPosition
    \/ StepUpdateAll
    \/ StepDrawAll
    \/ StepPollEvents

SpecRun == InitRun /\ [][NextRun]_vars

----------------------------------------------------------------------------
(* Claims about the frame loop, checked under SpecRun *)

\* C24 (SpecRun), as amended: in every pass of Window::Run's loop DrawAll
\* runs only after UpdateAll has run in that pass, and from the read of the
\* tag index by the closing updateCurve of key_callback_bezier to the end of
\* the pass no control-point entity is added or removed.
C24_FrameOrder ==
    \A j \in 1..Len(last.ret) :
        /\ last.ret[j].op = "DrawAll" => \E i \in 1..(j - 1) : last.ret[i].op = "UpdateAll"
        /\ \A i \in 1..(j - 1) :
              last.ret[i].op = "updateCurve" => last.ret[j].controls = last.ret[i].controls

\* C24 as stated: DrawAll runs only after UpdateAll, and no control-point
\* entity is added or removed between any read of the tag index by
\* updateCurve and the end of the pass.
C24_NoChangeAfterAnyRead ==
    \A j \in 1..Len(last.ret) :
        /\ last.ret[j].op = "DrawAll" => \E i \in 1..(j - 1) : last.ret[i].op = "UpdateAll"
        /\ \A i \in 1..(j - 1) :
              last.ret[i].read => last.ret[j].controls = last.ret[i].controls

\* a pass in which the left button removed a control point has reached
\* DrawAll and the end of the pass
C24_Witness ==
    /\ last.op = "PollEvents"
    /\ \E j \in 1..Len(last.ret) : last.ret[j].op = "DrawAll"
    /\ last.ret[2].controls # last.ret[1].controls

\* C30 (SpecRun): whenever the window is in control mode, the controlled
\* target is an entity the registry lists and that is tagged
\* "bezier_control"; and a target that a scroll event has just moved is
\* listed.
C30_TargetListed ==
    /\ window.m_is_controlling_bezier =>
          /\ window.m_now_controlling_target # NULL
          /\ window.m_now_controlling_target \in Range(m_objects)
          /\ HasTag(objects[window.m_now_controlling_target].m_id, "bezier_control")
    /\ last.op = "PollEvents" /\ last.arg # 0 /\ window.m_now_controlling_target # NULL =>
          window.m_now_controlling_target \in Range(m_objects)

====
